---- MODULE Spec2Model ----
(***************************************************************************)
(* Model of the offline-resilience layer of the HydroBlox exported PWA:     *)
(*   - DBManager (src/js/metadata-explorer.js): the IndexedDB store and    *)
(*     the batched import run importData, its workflow normaliser, its     *)
(*     retrying fetch and its query surface.                               *)
(*   - the service worker (src/sw.js): install, activate and the two       *)
(*     fetch listeners over CacheStorage.                                  *)
(*   - ExportedApp.loadWorkflows (src/js/app.js): the application-side     *)
(*     reading of the workflows payload.                                   *)
(* One action is one browser task: an IndexedDB / fetch / timer event      *)
(* together with the promise continuations it triggers, up to the next     *)
(* await.  IndexedDB behaves as the platform specifies: the requests of a  *)
(* transaction are served in order, a request error whose event is not     *)
(* cancelled aborts the transaction and rolls back all of its writes, and  *)
(* a transaction whose requests are all served commits in a later task.    *)
(***************************************************************************)
EXTENDS Integers, Sequences, FiniteSets, TLC

(* ------------------------------ bounds --------------------------------- *)
\* longest item index served by the remote
MaxItems == 6
\* number of importData runs on the one DBManager
MaxRuns == 2
\* number of transient environment faults (fetch attempts, store requests)
MaxFaults == 2
\* longest workflows.json payload of the enumerated payloads
MaxEntries == 2

(* ------------------------- program constants --------------------------- *)
batchSize == 5
defaultRetries == 3
itemRetries == 2
baseDelay == 1000

(* ------------------------- JSON value helpers -------------------------- *)
Undef == "undefined"
Truthy(s) == s # Undef /\ s # "" /\ s # "null"
Or(a, b) == IF Truthy(a) THEN a ELSE b

EmptyMap == [x \in {} |-> x]
MapPut(m, k, v) == [x \in (DOMAIN m) \cup {k} |-> IF x = k THEN v ELSE m[x]]

(* ------------------------------ remote --------------------------------- *)
(* The remote dataset is fixed for a behaviour.  A resource is "up" (its   *)
(* body is served unless a transient fault hits the attempt), "down"       *)
(* (every attempt fails in transport) or "http" (every attempt answers a   *)
(* non-success status).                                                    *)

\* index entry k: {id, workflowId, itemName, timestamp?}; 0 = absent
IndexEntry(k, dirty) ==
    [id        |-> IF dirty /\ k = 3 THEN 0 ELSE k,
     workflowId |-> "w1",
     itemName  |-> "item",
     timestamp |-> IF k % 2 = 0 THEN 100 + k ELSE 0]

\* ./data/items/<k>.json
ItemResource(k, dirty) ==
    [status   |-> IF dirty /\ k = 2 THEN "down" ELSE "up",
     body     |-> IF dirty /\ k = 4 THEN "bad"
                  ELSE IF dirty /\ k = 6 THEN "prim" ELSE "obj",
     data     |-> IF k % 2 = 1 THEN "data" ELSE Undef,
     settings |-> IF k % 2 = 1 THEN "settings" ELSE Undef,
     name     |-> IF k % 2 = 1 THEN "name" ELSE Undef,
     type     |-> IF k % 2 = 1 THEN "type" ELSE Undef,
     raw      |-> "payload"]

\* embedded item summaries of a workflow
NullItem == [t |-> "null", uniqueId |-> Undef, name |-> Undef, itemName |-> Undef,
             type |-> Undef, parameters |-> Undef, arguments |-> Undef,
             data |-> Undef, settings |-> Undef, status |-> Undef, results |-> Undef]
ObjItem(uid) == [NullItem EXCEPT !.t = "obj", !.uniqueId = uid, !.itemName = "item",
                 !.settings = "settings"]

\* entries of workflows.json
NullEntry == [t |-> "null", id |-> Undef, workflowId |-> Undef, name |-> Undef,
              items |-> [k |-> "undef", elems |-> <<>>],
              uniqueId |-> Undef, itemName |-> Undef,
              connections |-> Undef, created |-> Undef]
WorkflowEntry(id, elems) == [NullEntry EXCEPT !.t = "obj", !.id = id,
                             !.items = [k |-> "array", elems |-> elems]]
ItemLikeEntry(uid) == [NullEntry EXCEPT !.t = "obj", !.uniqueId = uid]
UnknownEntry == [NullEntry EXCEPT !.t = "obj", !.name = "x"]

WorkflowsMap ==
    [shape |-> "map",
     entries |-> << [key |-> "w1", val |-> WorkflowEntry(Undef, <<ObjItem("1"), NullItem>>)],
                    [key |-> "i9", val |-> ItemLikeEntry("i9")] >>]
WorkflowsArray ==
    [shape |-> "array",
     entries |-> << [key |-> "0", val |-> WorkflowEntry("w1", <<ObjItem("1")>>)],
                    [key |-> "1", val |-> UnknownEntry],
                    [key |-> "2", val |-> WorkflowEntry(Undef, <<>>)] >>]
WorkflowsNone == [shape |-> "none", entries |-> <<>>]

\* the remote datasets a behaviour may run against
Remotes ==
    { [n |-> MaxItems, dirty |-> FALSE, index |-> "array", indexStatus |-> "up",
       appInfo |-> "nested", appInfoStatus |-> "up",
       workflows |-> "map", workflowsStatus |-> "up"],
      [n |-> MaxItems, dirty |-> TRUE, index |-> "array", indexStatus |-> "up",
       appInfo |-> "empty", appInfoStatus |-> "up",
       workflows |-> "array", workflowsStatus |-> "up"],
      [n |-> 2, dirty |-> FALSE, index |-> "array", indexStatus |-> "up",
       appInfo |-> "flat", appInfoStatus |-> "http",
       workflows |-> "bad", workflowsStatus |-> "up"],
      [n |-> 0, dirty |-> FALSE, index |-> "notarray", indexStatus |-> "up",
       appInfo |-> "null", appInfoStatus |-> "up",
       workflows |-> "map", workflowsStatus |-> "down"] }

\* the shapes an entry of workflows.json is told apart by
WorkflowIdEntry == [NullEntry EXCEPT !.t = "obj", !.workflowId = "w7",
                                     !.items = [k |-> "array", elems |-> <<>>]]
BareItemsEntry == [NullEntry EXCEPT !.t = "obj", !.name = "x",
                                    !.items = [k |-> "object", elems |-> <<>>]]
\* an entry that is a number, a string or a boolean: it has no properties
PrimEntry == [NullEntry EXCEPT !.t = "prim"]
EntryKinds ==
    { WorkflowEntry("w1", <<ObjItem("1"), NullItem>>),
      WorkflowEntry(Undef, <<ObjItem(Undef)>>),
      WorkflowIdEntry, BareItemsEntry, ItemLikeEntry("i9"), UnknownEntry, NullEntry,
      PrimEntry }

\* JSON.parse of workflows.json: an object keeps its own keys, an array is
\* indexed from 0
Parsed(shape, vals) ==
    [shape |-> shape,
     entries |-> [x \in DOMAIN vals |->
                    [key |-> IF shape = "map" THEN "k" \o ToString(x) ELSE ToString(x - 1),
                     val |-> vals[x]]]]
Payloads ==
    { Parsed(shape, vals) : shape \in {"map", "array"},
                            vals \in UNION {[1..n -> EntryKinds] : n \in 0..MaxEntries} }

\* the remote datasets that serve every workflows payload: no item, every
\* resource up
WfRemotes ==
    { [n |-> 0, dirty |-> FALSE, index |-> "array", indexStatus |-> "up",
       appInfo |-> "nested", appInfoStatus |-> "up",
       workflows |-> p.shape, workflowsStatus |-> "up", payload |-> p] : p \in Payloads }

RemoteIndex(r) == [k \in 1..r.n |-> IndexEntry(k, r.dirty)]
RemoteWorkflows(r) == IF "payload" \in DOMAIN r THEN r.payload
                      ELSE IF r.workflows = "map" THEN WorkflowsMap
                      ELSE IF r.workflows = "array" THEN WorkflowsArray
                      ELSE WorkflowsNone

RemoteAppInfo(r) ==
    IF r.appInfo = "nested"
    THEN [nested |-> TRUE, version |-> "2.0.0", exportDate |-> 50, name |-> "App",
          title |-> "Title", description |-> Undef, layout |-> Undef,
          workflowCount |-> Undef]
    ELSE [nested |-> FALSE, version |-> Undef, exportDate |-> 0, name |-> Undef,
          title |-> IF r.appInfo = "flat" THEN "Title" ELSE Undef,
          description |-> Undef, layout |-> Undef, workflowCount |-> Undef]

(* --------------------------- fetchWithRetry ---------------------------- *)
Idle == [url |-> "none", i |-> 0, ph |-> "idle", delay |-> 0, got |-> ""]
Active(f) == f.ph \in {"flight", "wait"}
Backoff(i) == baseDelay * (i + 1)

\* one step of the retry loop: ev is the answer to the attempt in flight
\* ("ok", "neterr", "http", kept in got) or the expiry of the backoff timer
\* ("timer");
\* a non-success status waits even after the last attempt, and the loop
\* then falls through and returns undefined
\* variant: the loop runs while i <= retries
fetchWithRetry_oneMore(f, ev, retries) ==
    IF f.ph = "flight"
    THEN CASE ev = "ok"     -> [f EXCEPT !.ph = "resp", !.got = ev]
           [] ev = "neterr" -> IF f.i = retries - 1
                               THEN [f EXCEPT !.ph = "throw", !.got = ev]
                               ELSE [f EXCEPT !.ph = "wait", !.got = ev,
                                              !.delay = Backoff(f.i)]
           [] OTHER         -> [f EXCEPT !.ph = "wait", !.got = ev, !.delay = Backoff(f.i)]
    ELSE IF f.i + 1 < retries + 1
         THEN [f EXCEPT !.i = f.i + 1, !.ph = "flight"]
         ELSE [f EXCEPT !.ph = "undef"]

fetchWithRetry(f, ev, retries) ==
    IF f.ph = "flight"
    THEN CASE ev = "ok"     -> [f EXCEPT !.ph = "resp", !.got = ev]
           [] ev = "neterr" -> IF f.i = retries - 1
                               THEN [f EXCEPT !.ph = "throw", !.got = ev]
                               ELSE [f EXCEPT !.ph = "wait", !.got = ev,
                                              !.delay = Backoff(f.i)]
           [] OTHER         -> [f EXCEPT !.ph = "wait", !.got = ev, !.delay = Backoff(f.i)]
    ELSE IF f.i + 1 < retries
         THEN [f EXCEPT !.i = f.i + 1, !.ph = "flight"]
         ELSE [f EXCEPT !.ph = "undef"]

(* ----------------------- workflow normalisation ------------------------- *)
IsWorkflow(e) == e.items.k = "array"
HasKey(m, k) == \E x \in DOMAIN m : m[x].key = k
SeqPut(m, k, v) ==
    IF HasKey(m, k)
    THEN [x \in DOMAIN m |-> IF m[x].key = k THEN [key |-> k, val |-> v] ELSE m[x]]
    ELSE Append(m, [key |-> k, val |-> v])

\* Case 1: an array payload becomes a mapping keyed by id, workflowId or
\* "workflow-" + index; entries without an items array are skipped
RECURSIVE ArrayToMap(_, _, _)
ArrayToMap(entries, idx, acc) ==
    IF idx > Len(entries) THEN [ok |-> TRUE, map |-> acc]
    ELSE LET e == entries[idx].val
             workflowId == Or(e.id, Or(e.workflowId, "workflow-" \o ToString(idx - 1)))
         IN IF e.t = "null" THEN [ok |-> FALSE, map |-> <<>>]
            ELSE ArrayToMap(entries, idx + 1,
                            IF IsWorkflow(e) THEN SeqPut(acc, workflowId, e) ELSE acc)

\* Case 2: keep the entries that carry an items array
ValidateWorkflows(m) ==
    IF \E x \in DOMAIN m : m[x].val.t = "null"
    THEN [ok |-> FALSE, map |-> <<>>]
    ELSE [ok |-> TRUE, map |-> SelectSeq(m, LAMBDA p : IsWorkflow(p.val))]

NormalizeWorkflows(payload) ==
    LET m == IF payload.shape = "array"
             THEN ArrayToMap(payload.entries, 1, <<>>)
             ELSE [ok |-> TRUE, map |-> payload.entries]
    IN IF m.ok THEN ValidateWorkflows(m.map) ELSE m

(* ------------------- ExportedApp.loadWorkflows (app.js) ----------------- *)
\* this.workflows before loadWorkflows ran
NotLoaded == [loaded |-> FALSE, ok |-> FALSE, map |-> <<>>]

\* the mapping branch: an entry is kept when it is an object that carries an
\* items array; null, primitives, items and unknown objects are skipped
KeepWorkflows(m) ==
    SelectSeq(m, LAMBDA p : p.val.t = "obj" /\ IsWorkflow(p.val))

\* this.workflows as loadWorkflows leaves it for a parsed payload: an array
\* is converted as in importData, a mapping is filtered; on any throw
\* this.workflows is {} and the call rejects
LoadedWorkflows(payload) ==
    IF payload.shape = "array"
    THEN LET m == ArrayToMap(payload.entries, 1, <<>>)
         IN  [loaded |-> TRUE, ok |-> m.ok, map |-> IF m.ok THEN m.map ELSE <<>>]
    ELSE IF payload.shape = "map"
    THEN [loaded |-> TRUE, ok |-> TRUE, map |-> KeepWorkflows(payload.entries)]
    ELSE [loaded |-> TRUE, ok |-> FALSE, map |-> <<>>]

(* ------------------------------ records -------------------------------- *)
ISO(t) == 1000 + t

StoredItem(item) ==
    [uniqueId |-> item.uniqueId, name |-> item.name, itemName |-> item.itemName,
     type |-> item.type, parameters |-> Or(item.parameters, "{}"),
     arguments |-> Or(item.arguments, "{}"), data |-> Or(item.data, "[]"),
     settings |-> Or(item.settings, "{}"), status |-> item.status,
     results |-> Or(item.results, "null")]

\* variant: an embedded null item is stored as an item without fields
WorkflowRecord_keepNull(workflowId, workflow, r) ==
    [id |-> workflowId,
     name |-> Or(workflow.name, "Workflow " \o workflowId),
     items |-> LET elems == IF workflow.items.k = "array" THEN workflow.items.elems ELSE <<>>
               IN [x \in DOMAIN elems |-> StoredItem(elems[x])],
     connections |-> Or(workflow.connections, "[]"),
     created |-> workflow.created,
     run |-> r]

WorkflowRecord(workflowId, workflow, r) ==
    [id |-> workflowId,
     name |-> Or(workflow.name, "Workflow " \o workflowId),
     items |-> LET elems == IF workflow.items.k = "array" THEN workflow.items.elems ELSE <<>>
                   kept == SelectSeq(elems, LAMBDA it : it.t = "obj")
               IN [x \in DOMAIN kept |-> StoredItem(kept[x])],
     connections |-> Or(workflow.connections, "[]"),
     created |-> workflow.created,
     run |-> r]

\* variant: the record is keyed by its version
AppInfoRecord_keyByVersion(info, t) ==
    [key |-> Or(info.version, "1.0.0"),
     version |-> Or(info.version, "1.0.0"),
     exportDate |-> IF info.exportDate # 0 THEN info.exportDate ELSE ISO(t),
     name |-> Or(info.name, Or(info.title, "HydroBlox Application")),
     title |-> info.title, description |-> info.description,
     layout |-> info.layout, workflowCount |-> info.workflowCount]

AppInfoRecord(info, t) ==
    [key |-> "appInfo",
     version |-> Or(info.version, "1.0.0"),
     exportDate |-> IF info.exportDate # 0 THEN info.exportDate ELSE ISO(t),
     name |-> Or(info.name, Or(info.title, "HydroBlox Application")),
     title |-> info.title, description |-> info.description,
     layout |-> info.layout, workflowCount |-> info.workflowCount]

FallbackAppInfo ==
    [nested |-> TRUE, version |-> "1.0.0", exportDate |-> 0, name |-> "HydroBlox",
     title |-> Undef, description |-> Undef, layout |-> Undef, workflowCount |-> Undef]

\* variant: the timestamp of the index entry is ignored
ItemRecord_alwaysNow(itemMeta, itemData, t, r) ==
    [uniqueId |-> itemMeta.id,
     workflowId |-> itemMeta.workflowId,
     itemName |-> itemMeta.itemName,
     timestamp |-> ISO(t),
     data |-> IF itemData.data # Undef THEN itemData.data ELSE itemData.raw,
     settings |-> Or(itemData.settings, "{}"),
     name |-> itemData.name,
     type |-> itemData.type,
     run |-> r]

ItemRecord(itemMeta, itemData, t, r) ==
    [uniqueId |-> itemMeta.id,
     workflowId |-> itemMeta.workflowId,
     itemName |-> itemMeta.itemName,
     timestamp |-> IF itemMeta.timestamp # 0 THEN itemMeta.timestamp ELSE ISO(t),
     data |-> IF itemData.data # Undef THEN itemData.data ELSE itemData.raw,
     settings |-> Or(itemData.settings, "{}"),
     name |-> itemData.name,
     type |-> itemData.type,
     run |-> r]

(* ----------------------- store and transactions ------------------------ *)
EmptyStore == [workflows |-> EmptyMap, items |-> EmptyMap, appInfo |-> EmptyMap]
NoTx == [step |-> "none", batch |-> 0, total |-> 0, writes |-> <<>>, pend |-> <<>>]
Tx(step, b, puts) == [step |-> step, batch |-> b, total |-> Len(puts),
                      writes |-> <<>>, pend |-> puts]
Put(st, k, rec) == [store |-> st, key |-> k, rec |-> rec]
\* appInfoStore.put: the store's keyPath is the field key of the record
PutAppInfo(info, t) == Put("appInfo", AppInfoRecord(info, t).key, AppInfoRecord(info, t))

RECURSIVE Commit(_, _)
Commit(s, writes) ==
    IF writes = <<>> THEN s
    ELSE Commit([s EXCEPT ![Head(writes).store] = MapPut(@, Head(writes).key, Head(writes).rec)],
                Tail(writes))

RECURSIVE CommitAll(_, _)
CommitAll(s, q) == IF q = <<>> THEN s ELSE CommitAll(Commit(s, Head(q).writes), Tail(q))

(* --------------------------- the service worker ------------------------ *)
CACHE_NAME == "hydroblox-offline-v2"

\* fetch events dispatched to the service worker in one behaviour
MaxRequests == 2
\* deployments of new content to the server in one behaviour
MaxDeploys == 1
\* cache regions left behind by earlier versions of the worker
MaxStale == 2

\* a URL of the application's origin: directory, file name and extension
Url(dir, file, ext) == [dir |-> dir, file |-> file, ext |-> ext]

\* the Request of a fetch event
Request(url, destination, mode) == [url |-> url, destination |-> destination, mode |-> mode]

\* requests the page issues: a script, the document, two data files, an icon
Requests ==
    { Request(Url("js", "app", "js"), "script", "no-cors"),
      Request(Url("", "index", "html"), "document", "navigate"),
      Request(Url("data", "workflows", "json"), "", "cors"),
      Request(Url("data", "item-index", "json"), "", "cors"),
      Request(Url("icons", "icon-192", "svg"), "image", "no-cors") }

\* a Response: body and status; NoResponse is undefined, which respondWith
\* turns into a network error for the page
Response(body, status) == [body |-> body, status |-> status]
NoResponse == Response("", 0)

\* the bytes the server serves at content version v, and back
Bodies == <<"v0", "v1", "v2", "v3", "v4", "v5">>
Bytes(v) == Bodies[v + 1]
Version(body) == CHOOSE v \in 0..(Len(Bodies) - 1) : Bodies[v + 1] = body

\* caches.match('/offline.html')
OfflineUrl == Url("", "offline", "html")

\* CacheStorage after install: the region CACHE_NAME holding the URLs of S
Precached(S) == << [name |-> CACHE_NAME, entries |-> [u \in S |-> Response(Bytes(0), 200)]] >>

\* caches.match(req): the first region, in creation order, that holds the URL
CachesMatch(cs, url) ==
    LET hits == { i \in 1..Len(cs) : url \in DOMAIN cs[i].entries }
    IN  IF hits = {} THEN NoResponse
        ELSE cs[CHOOSE i \in hits : \A j \in hits : i <= j].entries[url]

\* the entries of the region called name (none when it does not exist)
RegionEntries(cs, name) ==
    IF \E i \in 1..Len(cs) : cs[i].name = name
    THEN cs[CHOOSE i \in 1..Len(cs) : cs[i].name = name].entries
    ELSE EmptyMap

\* caches.open(name).then(cache => cache.put(req, copy))
CachePut(cs, name, url, resp) ==
    IF \E i \in 1..Len(cs) : cs[i].name = name
    THEN [i \in 1..Len(cs) |->
            IF cs[i].name = name
            THEN [cs[i] EXCEPT !.entries = MapPut(@, url, resp)]
            ELSE cs[i]]
    ELSE Append(cs, [name |-> name, entries |-> MapPut(EmptyMap, url, resp)])

\* req.destination === 'script' || ... || url.pathname.endsWith('.css')
isScriptOrStyle(req) ==
    \/ req.destination = "script" \/ req.destination = "style"
    \/ req.url.ext = "js" \/ req.url.ext = "css"

\* event.request.url.includes('/data/')
InData(url) == url.dir = "data"

\* event.request.url.includes('workflows.json')
IsWorkflows(url) == url.file = "workflows" /\ url.ext = "json"

\* a FetchEvent before any listener ran
NewEvent(req) ==
    [request |-> req, entered |-> FALSE, stop |-> FALSE, by |-> "", ph |-> "idle",
     miss |-> FALSE, fetched |-> FALSE, failed |-> FALSE, resp |-> NoResponse,
     prior |-> {}]

\* event.respondWith(promise): throws InvalidStateError when the event was
\* responded to already; otherwise it also stops the event's propagation
respondWith(e, by, ph) ==
    IF e.entered THEN e
    ELSE [e EXCEPT !.entered = TRUE, !.stop = TRUE, !.by = by, !.ph = ph,
                   !.fetched = (ph = "fetch")]

\* the first fetch listener, up to its respondWith call
onfetch(e) ==
    IF isScriptOrStyle(e.request)
    THEN respondWith(e, "network-first", "fetch")
    ELSE respondWith(e, "cache-first", "match")

\* the second fetch listener ("Handle data API requests"), up to respondWith
onfetch_data(e) ==
    IF InData(e.request.url) THEN respondWith(e, "data", "match") ELSE e

\* dispatch of a fetch event: the listeners run in registration order until
\* one of them stops the propagation
Dispatch(req) ==
    LET e1 == onfetch(NewEvent(req))
    IN  IF e1.stop THEN e1 ELSE onfetch_data(e1)

\* the promise given to respondWith settles with resp
Done(e, resp) == [e EXCEPT !.ph = "done", !.resp = resp]

\* the precache manifest, by three of its files
PRECACHE_URLS == {OfflineUrl, Url("data", "workflows", "json"), Url("js", "app", "js")}

\* names of the cache regions earlier versions of the worker created
StaleNames == <<"hydroblox-offline-v1", "hydroblox-offline", "hydroblox-cache",
                "hydroblox-offline-v0">>

\* CacheStorage before install: k regions of earlier versions
StaleCaches(k) ==
    [i \in 1..k |-> [name |-> StaleNames[i],
                     entries |-> MapPut(EmptyMap, Url("js", "app", "js"),
                                        Response(Bytes(0), 200))]]

\* caches.keys()
CachesKeys(cs) == { cs[i].name : i \in 1..Len(cs) }

\* caches.open(name): the region, created when it does not exist yet
CachesOpen(cs, name) ==
    IF name \in CachesKeys(cs) THEN cs ELSE Append(cs, [name |-> name, entries |-> EmptyMap])

\* caches.delete(name)
CachesDelete(cs, name) == SelectSeq(cs, LAMBDA r : r.name # name)

\* the worker script evaluated, no lifecycle event dispatched yet
Parsed0 ==
    [ph |-> "parsed", adds |-> {}, failed |-> {}, skipped |-> FALSE,
     seen |-> <<>>, dels |-> {}, claimed |-> FALSE]

\* the worker installed and activated, controlling the page
Activated ==
    [ph |-> "activated", adds |-> {}, failed |-> {}, skipped |-> TRUE,
     seen |-> <<>>, dels |-> {}, claimed |-> TRUE]

\* variant: the first failed cache.add ends the precache (Promise.all)
AddSettled_failFast(l, u, ok) ==
    LET l1 == [l EXCEPT !.adds = @ \ {u},
                        !.failed = IF ok THEN @ ELSE @ \cup {u}]
    IN  IF l1.adds = {} \/ ~ok THEN [l1 EXCEPT !.ph = "installed", !.skipped = TRUE] ELSE l1

\* Promise.allSettled(...).then(() => self.skipWaiting()): runs once no
\* cache.add is pending any more
AddSettled(l, u, ok) ==
    LET l1 == [l EXCEPT !.adds = @ \ {u},
                        !.failed = IF ok THEN @ ELSE @ \cup {u}]
    IN  IF l1.adds = {} THEN [l1 EXCEPT !.ph = "installed", !.skipped = TRUE] ELSE l1

\* variant: clients.claim() is called when the first deletion settles
DeleteSettled_first(l, n) ==
    [l EXCEPT !.dels = @ \ {n}, !.ph = "activated", !.claimed = TRUE]

\* Promise.all(...).then(() => self.clients.claim()): runs once no
\* caches.delete is pending any more
DeleteSettled(l, n) ==
    LET l1 == [l EXCEPT !.dels = @ \ {n}]
    IN  IF l1.dels = {} THEN [l1 EXCEPT !.ph = "activated", !.claimed = TRUE] ELSE l1

(* ------------------------------- state --------------------------------- *)
VARIABLES
    remote,          \* the remote dataset
    now,             \* the clock read by new Date()
    faults,          \* transient faults injected so far
    ready,           \* DBManager.ready
    store,           \* committed contents of the three object stores
    txq,             \* transactions whose requests are served, committing
    cur,             \* the open transaction and its pending put requests
    pc,              \* where importData is suspended ("idle": not running)
    run,             \* number of importData runs started
    result,          \* return value of the last importData run
    errors,          \* importData's errors list
    itemIndex,       \* DBManager.itemIndex
    tf,              \* the fetchWithRetry call of importData
    off,             \* loop variable i of the batch loop
    it,              \* the item promises of the current batch
    workflowCount, completed,
    processedItems, failedItems,
    loadedCount, loadFailedCount, storeCompleted, storeFailed,
    hist,            \* history: what the current run has issued so far
    counted,         \* history: ids whose put the run counted as succeeded
    batchLog,        \* history: how each storeItemBatch call of the run settled
    outcomes,        \* history: outcome of each fetchWithRetry call of the run
    snap,            \* history: the previous run, as it ended
    progress,        \* the messages importData has passed to updateProgress
    conns,           \* connections opened by indexedDB.open so far
    app,             \* where the presentation caller is suspended
    q,               \* the query operation of the presentation caller
    caches,          \* CacheStorage of the service worker: its cache regions
    cachePuts,       \* cache.put calls the fetch listener started, not settled
    evs,             \* the fetch events dispatched to the service worker
    srv,             \* content version the server serves
    life,            \* the worker's install / activate progress
    workflows        \* ExportedApp.workflows

envVars  == <<remote, now>>
dbVars   == <<ready, store, txq, cur>>
cntVars  == <<workflowCount, completed, processedItems, failedItems,
              loadedCount, loadFailedCount, storeCompleted, storeFailed>>
appVars  == <<conns, app, q>>
swVars   == <<caches, cachePuts, evs, srv, life>>
dbmVars  == <<envVars, faults, dbVars, pc, run, result, errors, itemIndex, tf, off, it,
              cntVars, hist, counted, batchLog, outcomes, snap, progress, appVars>>
vars == <<remote, now, faults, ready, store, txq, cur, pc, run, result, errors,
          itemIndex, tf, off, it, workflowCount, completed, processedItems,
          failedItems, loadedCount, loadFailedCount, storeCompleted, storeFailed,
          hist, counted, batchLog, outcomes, snap, progress, conns, app, q,
          caches, cachePuts, evs, srv, life, workflows>>

\* a settled storeItemBatch call: its result, the ids its transaction wrote,
\* how each of its item promises ended and whether a put request failed
Settled(kind, succeeded, failed, written, putFailed) ==
    [kind |-> kind, succeeded |-> succeeded, failed |-> failed, written |-> written,
     ids |-> [j \in DOMAIN it |-> it[j].id], why |-> [j \in DOMAIN it |-> it[j].why],
     putFailed |-> putFailed]
\* the presentation caller has no query operation under way
NoQuery == [op |-> "none", uniqueId |-> 0, workflowId |-> "", ph |-> "idle",
            tx |-> FALSE, res |-> {}, err |-> ""]
NoSnap == [run |-> 0, result |-> "none", store |-> EmptyStore, outcomes |-> EmptyMap,
           storeFault |-> FALSE]

Init ==
    /\ remote \in Remotes
    /\ now = 0 /\ faults = 0
    /\ ready = FALSE /\ store = EmptyStore /\ txq = <<>> /\ cur = NoTx
    /\ pc = "idle" /\ run = 0 /\ result = "none" /\ errors = <<>>
    /\ itemIndex = <<>> /\ tf = Idle /\ off = 0 /\ it = <<>>
    /\ workflowCount = 0 /\ completed = 0 /\ processedItems = 0 /\ failedItems = 0
    /\ loadedCount = 0 /\ loadFailedCount = 0 /\ storeCompleted = 0 /\ storeFailed = 0
    /\ hist = {} /\ counted = {} /\ batchLog = <<>> /\ outcomes = EmptyMap
    /\ snap = NoSnap /\ progress = <<>> /\ conns = 0 /\ app = "idle" /\ q = NoQuery
    /\ caches = Precached({}) /\ cachePuts = {} /\ evs = <<>>
    /\ srv = 0 /\ life = Activated /\ workflows = NotLoaded

(* --------------------------- environment ------------------------------- *)
Status(url) == CASE url = "index"     -> remote.indexStatus
                 [] url = "appInfo"   -> remote.appInfoStatus
                 [] OTHER             -> remote.workflowsStatus
Answers(status) ==
    IF status = "down" THEN {"neterr"}
    ELSE IF status = "http" THEN {"http"}
    ELSE {"ok"} \cup (IF faults < MaxFaults THEN {"neterr", "http"} ELSE {})
Cost(status, ans) == IF status = "up" /\ ans # "ok" THEN 1 ELSE 0

\* the requests of a transaction are served once every earlier transaction
\* on the same object store has finished
\* the object stores in the scope of the transaction of a query operation
Scope(op) == CASE op = "getWorkflows" -> {"workflows"}
               [] op \in {"getWorkflowItems", "getResult"} -> {"items"}
               [] op = "clearDatabase" -> {"workflows", "items", "appInfo"}
               [] OTHER -> {}
\* a transaction waits for the pending operation of the presentation caller
\* when their scopes overlap
Held(stores) == q.ph = "pending" /\ Scope(q.op) \cap stores # {}
CanServe == /\ cur.pend # <<>> /\ \A x \in DOMAIN txq : txq[x].step # cur.step
            /\ ~Held({cur.step})
Served == [cur EXCEPT !.writes = Append(@, Head(cur.pend)), !.pend = Tail(@)]
EffectiveStore == CommitAll(store, txq)

\* time passes between two runs
tick ==
    /\ pc = "idle" /\ now < run /\ run < MaxRuns
    /\ now' = now + 1
    /\ UNCHANGED <<remote, swVars, workflows, faults, dbVars, pc, run, result, errors, itemIndex, tf,
                   off, it, cntVars, hist, counted, batchLog, outcomes, snap, appVars, progress>>

\* a transaction whose requests are all served commits
transaction_oncomplete ==
    /\ txq # <<>>
    /\ store' = Commit(store, Head(txq).writes)
    /\ txq' = Tail(txq)
    /\ UNCHANGED <<envVars, swVars, workflows, faults, ready, cur, pc, run, result, errors, itemIndex,
                   tf, off, it, cntVars, hist, counted, batchLog, outcomes, snap, appVars, progress>>

(* ------------------------ importData: steps 1-2 ------------------------ *)
importData ==
    /\ pc = "idle" /\ run < MaxRuns
    /\ run' = run + 1
    /\ errors' = <<>> /\ result' = "none"
    /\ pc' = IF ready THEN "clear" ELSE "init"
    /\ progress' = IF ready THEN <<"Clearing previous data...">>
                          ELSE <<"Initializing database...">>
    /\ hist' = IF ready THEN {"clear"} ELSE {"init"}
    /\ counted' = {} /\ batchLog' = <<>> /\ outcomes' = EmptyMap
    /\ snap' = [run |-> run, result |-> result, store |-> EffectiveStore,
                outcomes |-> outcomes, storeFault |-> "storeFault" \in hist]
    /\ UNCHANGED <<envVars, swVars, workflows, faults, dbVars, itemIndex, tf, off, it, cntVars, appVars>>

initDB_onsuccess ==
    /\ pc = "init"
    /\ ready' = TRUE /\ conns' = conns + 1
    /\ progress' = Append(progress, "Clearing previous data...")
    /\ pc' = "clear"
    /\ hist' = hist \cup {"clear"}
    /\ UNCHANGED <<envVars, swVars, workflows, faults, store, txq, cur, run, result, errors, itemIndex,
                   tf, off, it, cntVars, counted, batchLog, outcomes, snap, app, q>>

\* variant: the open failure is swallowed and the run goes on to Clear
initDB_onerror_swallowed ==
    /\ pc = "init" /\ faults < MaxFaults
    /\ faults' = faults + 1
    /\ pc' = "clear"
    /\ progress' = Append(progress, "Clearing previous data...")
    /\ hist' = hist \cup {"initFailed", "storeFault", "clear"}
    /\ UNCHANGED <<envVars, swVars, workflows, dbVars, run, result, errors, itemIndex, tf, off, it,
                   cntVars, counted, batchLog, outcomes, snap, appVars>>

initDB_onerror ==
    /\ pc = "init" /\ faults < MaxFaults
    /\ faults' = faults + 1
    /\ result' = "false"
    /\ progress' = Append(progress, "Failed to initialize database")
    /\ pc' = "idle"
    /\ hist' = hist \cup {"initFailed", "storeFault"}
    /\ UNCHANGED <<envVars, swVars, workflows, dbVars, run, errors, itemIndex, tf, off, it, cntVars,
                   counted, batchLog, outcomes, snap, appVars>>

\* both outcomes of clearDatabase continue with the fetch of the item index
AfterClear ==
    /\ pc' = "index"
    /\ tf' = [url |-> "index", i |-> 0, ph |-> "flight", delay |-> 0, got |-> ""]
    /\ UNCHANGED <<envVars, swVars, workflows, ready, txq, cur, run, result, itemIndex, off, it,
                   cntVars, counted, batchLog, outcomes, snap, appVars>>

\* variant: the items store is not cleared
clearDatabase_keepItems ==
    /\ pc = "clear" /\ ready /\ txq = <<>> /\ cur = NoTx /\ q.ph # "pending"
    /\ store' = [EmptyStore EXCEPT !.items = store.items]
    /\ hist' = hist \cup {"cleared", "fetch"}
    /\ progress' = Append(progress, "Fetching item index...")
    /\ UNCHANGED <<faults, errors>>
    /\ AfterClear

clearDatabase_oncomplete ==
    /\ pc = "clear" /\ ready /\ txq = <<>> /\ cur = NoTx /\ q.ph # "pending"
    /\ store' = EmptyStore
    /\ hist' = hist \cup {"cleared", "fetch"}
    /\ progress' = Append(progress, "Fetching item index...")
    /\ UNCHANGED <<faults, errors>>
    /\ AfterClear

\* variant: the transaction has no onerror handler, clearDatabase stays pending
clearDatabase_onerror_unhandled ==
    /\ pc = "clear" /\ ready /\ txq = <<>> /\ cur = NoTx /\ q.ph # "pending"
    /\ faults < MaxFaults
    /\ faults' = faults + 1
    /\ store' = store
    /\ hist' = hist \cup {"storeFault"}
    /\ pc' = "clearing"
    /\ UNCHANGED <<envVars, swVars, workflows, ready, txq, cur, run, result, itemIndex, off, it,
                   cntVars, counted, batchLog, outcomes, snap, appVars, errors, progress, tf>>

clearDatabase_onerror ==
    /\ pc = "clear" /\ ready /\ txq = <<>> /\ cur = NoTx /\ q.ph # "pending"
    /\ faults < MaxFaults
    /\ faults' = faults + 1
    /\ store' = store
    /\ errors' = Append(errors, "clear")
    /\ progress' = progress \o <<"clear", "Fetching item index...">>
    /\ hist' = hist \cup {"storeFault", "fetch"}
    /\ AfterClear

(* ------------------------ importData: steps 3-5 ------------------------ *)
\* what the caller of fetchWithRetry gets: a response, a thrown error, or
\* undefined when the loop falls through
Outcome(f) == IF f.ph = "resp" THEN "resp"
              ELSE IF f.ph = "throw" THEN "error" ELSE "undefined"

\* step 3: the item index, or an empty index on any failure
LoadIndex(f) ==
    LET loaded == f.ph = "resp" /\ remote.index = "array"
    IN /\ itemIndex' = IF loaded THEN RemoteIndex(remote) ELSE <<>>
       /\ errors' = IF loaded THEN errors ELSE Append(errors, "index")
       /\ progress' = (IF loaded THEN progress ELSE Append(progress, "index"))
                        \o <<"Loading application information...">>
       /\ outcomes' = MapPut(outcomes, "index", Outcome(f))
       /\ pc' = "appInfo"
       /\ tf' = [url |-> "appInfo", i |-> 0, ph |-> "flight", delay |-> 0, got |-> ""]
       /\ UNCHANGED <<envVars, swVars, workflows, dbVars, run, result, off, it, cntVars, hist, counted,
                      batchLog, snap, appVars>>

\* variant: storeAppInfo is not awaited, the workflows are fetched at once
LoadAppInfo_noAwait(f) ==
    LET parsed == f.ph = "resp" /\ remote.appInfo \in {"nested", "flat", "prim"}
    IN /\ cur' = IF parsed
                 THEN Tx("appInfo", 0, <<PutAppInfo(RemoteAppInfo(remote), now)>>)
                 ELSE Tx("appInfo", 0, <<PutAppInfo(FallbackAppInfo, now)>>)
       /\ errors' = IF parsed THEN errors ELSE Append(errors, "appInfo")
       /\ progress' = (IF parsed THEN progress ELSE Append(progress, "appInfo"))
                        \o <<"Loading workflows...">>
       /\ pc' = "workflows"
       /\ outcomes' = MapPut(outcomes, "appInfo", Outcome(f))
       /\ hist' = hist \cup {"write"}
       /\ tf' = [url |-> "workflows", i |-> 0, ph |-> "flight", delay |-> 0, got |-> ""]
       /\ UNCHANGED <<envVars, swVars, workflows, ready, store, txq, run, result, itemIndex, off, it,
                      cntVars, counted, batchLog, snap, appVars>>

\* step 4: the app metadata is stored, or the hard-coded fallback record
LoadAppInfo(f) ==
    LET parsed == f.ph = "resp" /\ remote.appInfo \in {"nested", "flat", "prim"}
    IN /\ cur' = IF parsed
                 THEN Tx("appInfo", 0, <<PutAppInfo(RemoteAppInfo(remote), now)>>)
                 ELSE Tx("appInfo", 0, <<PutAppInfo(FallbackAppInfo, now)>>)
       /\ errors' = IF parsed THEN errors ELSE Append(errors, "appInfo")
       /\ progress' = IF parsed THEN progress ELSE Append(progress, "appInfo")
       /\ pc' = IF parsed THEN "appstore" ELSE "fallback"
       /\ outcomes' = MapPut(outcomes, "appInfo", Outcome(f))
       /\ hist' = hist \cup {"write"}
       /\ tf' = Idle
       /\ UNCHANGED <<envVars, swVars, workflows, ready, store, txq, run, result, itemIndex, off, it,
                      cntVars, counted, batchLog, snap, appVars>>

\* step 6 starts with the counters of the batch loop
EnterLoop ==
    /\ pc' = "loop" /\ off' = 0 /\ processedItems' = 0 /\ failedItems' = 0

\* step 5: the workflows are normalised and stored, or none on any failure
LoadWorkflows(f) ==
    LET norm == NormalizeWorkflows(RemoteWorkflows(remote))
        good == f.ph = "resp" /\ remote.workflows \in {"map", "array"} /\ norm.ok
        puts == [x \in DOMAIN norm.map |->
                   Put("workflows", norm.map[x].key,
                       WorkflowRecord(norm.map[x].key, norm.map[x].val, run))]
    IN /\ outcomes' = MapPut(outcomes, "workflows", Outcome(f))
       /\ tf' = Idle
       /\ IF good /\ puts # <<>>
          THEN /\ cur' = Tx("workflows", 0, puts)
               /\ workflowCount' = Len(puts) /\ completed' = 0
               /\ pc' = "wfstore"
               /\ hist' = hist \cup {"write"}
               /\ UNCHANGED <<errors, progress, off, processedItems, failedItems>>
          ELSE /\ errors' = IF good THEN errors ELSE Append(errors, "workflows")
               /\ progress' = IF good THEN progress ELSE Append(progress, "workflows")
               /\ workflowCount' = 0
               /\ EnterLoop
               /\ UNCHANGED <<cur, completed, hist>>
       /\ UNCHANGED <<envVars, swVars, workflows, ready, store, txq, run, result, itemIndex, it,
                      loadedCount, loadFailedCount, storeCompleted, storeFailed,
                      counted, batchLog, snap, appVars>>

\* the continuation of importData after its fetchWithRetry call returns
Resume(f) ==
    IF Active(f)
    THEN /\ tf' = f
         /\ UNCHANGED <<envVars, swVars, workflows, dbVars, pc, run, result, errors, itemIndex, off, it,
                        cntVars, hist, counted, batchLog, outcomes, snap, appVars, progress>>
    ELSE CASE f.url = "index"   -> LoadIndex(f)
           [] f.url = "appInfo" -> LoadAppInfo(f)
           [] OTHER             -> LoadWorkflows(f)

fetch_settle ==
    /\ tf.ph = "flight"
    /\ \E ans \in Answers(Status(tf.url)) :
          /\ faults' = faults + Cost(Status(tf.url), ans)
          /\ Resume(fetchWithRetry(tf, ans, defaultRetries))

fetch_timer ==
    /\ tf.ph = "wait"
    /\ faults' = faults
    /\ Resume(fetchWithRetry(tf, "timer", defaultRetries))

\* storeAppInfo: request.onsuccess resolves, importData fetches the workflows
storeAppInfo_onsuccess ==
    /\ cur.step = "appInfo" /\ CanServe
    /\ txq' = Append(txq, Served) /\ cur' = NoTx
    /\ IF pc \in {"appstore", "fallback"}
       THEN /\ pc' = "workflows"
            /\ tf' = [url |-> "workflows", i |-> 0, ph |-> "flight", delay |-> 0, got |-> ""]
            /\ progress' = Append(progress, "Loading workflows...")
       ELSE UNCHANGED <<pc, tf, progress>>
    /\ UNCHANGED <<envVars, swVars, workflows, faults, ready, store, run, result, errors, itemIndex, off,
                   it, cntVars, hist, counted, batchLog, outcomes, snap, appVars>>

\* storeAppInfo: request.onerror rejects and the transaction aborts; the
\* first rejection is caught and the fallback stored, a rejection of the
\* fallback reaches the outer catch of importData
storeAppInfo_onerror ==
    /\ cur.step = "appInfo" /\ CanServe
    /\ faults < MaxFaults
    /\ faults' = faults + 1
    /\ hist' = hist \cup {"storeFault"}
    /\ CASE pc = "appstore" ->
              /\ errors' = Append(errors, "appInfo")
              /\ progress' = Append(progress, "appInfo")
              /\ cur' = Tx("appInfo", 0, <<PutAppInfo(FallbackAppInfo, now)>>)
              /\ pc' = "fallback"
              /\ UNCHANGED result
         [] pc = "fallback" ->
              /\ cur' = NoTx
              /\ result' = "false"
              /\ pc' = "idle"
              /\ progress' = Append(progress, "Critical error during import")
              /\ UNCHANGED errors
         [] OTHER ->
              /\ cur' = NoTx
              /\ UNCHANGED <<errors, progress, pc, result>>
    /\ UNCHANGED <<envVars, swVars, workflows, ready, store, txq, run, itemIndex, tf, off, it, cntVars,
                   counted, batchLog, outcomes, snap, appVars>>

\* storeWorkflows: request.onsuccess counts, the last one resolves
storeWorkflows_onsuccess ==
    /\ cur.step = "workflows" /\ CanServe
    /\ IF Served.pend = <<>>
       THEN txq' = Append(txq, Served) /\ cur' = NoTx
       ELSE cur' = Served /\ txq' = txq
    /\ completed' = completed + 1
    /\ IF pc = "wfstore" /\ completed' = cur.total
       THEN EnterLoop
       ELSE UNCHANGED <<pc, off, processedItems, failedItems>>
    /\ UNCHANGED <<envVars, swVars, workflows, faults, ready, store, run, result, errors, itemIndex, tf,
                   it, workflowCount, loadedCount, loadFailedCount, storeCompleted,
                   storeFailed, hist, counted, batchLog, outcomes, snap, appVars, progress>>

\* storeWorkflows: request.onerror rejects and the transaction aborts
storeWorkflows_onerror ==
    /\ cur.step = "workflows" /\ CanServe
    /\ faults < MaxFaults
    /\ faults' = faults + 1
    /\ hist' = hist \cup {"storeFault"}
    /\ cur' = NoTx
    /\ IF pc = "wfstore"
       THEN /\ errors' = Append(errors, "workflows")
            /\ progress' = Append(progress, "workflows")
            /\ EnterLoop
       ELSE UNCHANGED <<errors, progress, pc, off, processedItems, failedItems>>
    /\ UNCHANGED <<envVars, swVars, workflows, ready, store, txq, run, result, itemIndex, tf, it,
                   workflowCount, completed, loadedCount, loadFailedCount,
                   storeCompleted, storeFailed, counted, batchLog, outcomes, snap, appVars>>

(* ------------------------- importData: step 6 -------------------------- *)
Min(a, b) == IF a < b THEN a ELSE b
NoRec == [uniqueId |-> 0, workflowId |-> "", itemName |-> "", timestamp |-> 0,
          data |-> Undef, settings |-> Undef, name |-> Undef, type |-> Undef,
          run |-> 0]
Batch == SubSeq(itemIndex, off + 1, Min(off + batchSize, Len(itemIndex)))
ItemUrl(id) == "item" \o ToString(id)
Ids(writes) == {writes[x].key : x \in DOMAIN writes}

\* the batch loop: the next batch starts with one promise per index entry,
\* an entry without id fails at once, every other one issues its fetch;
\* after the last batch the run returns true
importData_loop ==
    /\ pc = "loop"
    /\ IF off < Len(itemIndex)
       THEN /\ it' = [j \in 1..Len(Batch) |->
                        IF Batch[j].id = 0
                        THEN [id |-> 0, i |-> 0, ph |-> "done", delay |-> 0, got |-> "", why |-> "meta",
                              rec |-> NoRec]
                        ELSE [id |-> Batch[j].id, i |-> 0, ph |-> "flight", delay |-> 0, got |-> "",
                              why |-> "", rec |-> NoRec]]
            /\ loadedCount' = 0
            /\ loadFailedCount' = Cardinality({j \in 1..Len(Batch) : Batch[j].id = 0})
            /\ pc' = "batchfetch"
            /\ progress' = Append(progress, "Loading items...")
            /\ UNCHANGED <<errors, result>>
       ELSE /\ errors' = IF Len(itemIndex) > 0 /\ failedItems > 0
                         THEN Append(errors, "failed") ELSE errors
            /\ progress' = IF Len(itemIndex) > 0
                            THEN Append(progress, "Import complete")
                                 \o (IF failedItems > 0 THEN <<"failed">> ELSE <<>>)
                            ELSE Append(progress, "No items to import")
            /\ result' = "true"
            /\ pc' = "idle"
            /\ UNCHANGED <<it, loadedCount, loadFailedCount>>
    /\ UNCHANGED <<envVars, swVars, workflows, faults, dbVars, run, itemIndex, tf, off, workflowCount,
                   completed, processedItems, failedItems, storeCompleted, storeFailed,
                   hist, counted, batchLog, outcomes, snap, appVars>>

\* the body of one item promise after its fetchWithRetry call returns
ItemResume(j, f) ==
    IF Active(f)
    THEN /\ it' = [it EXCEPT ![j] = f]
         /\ UNCHANGED <<loadedCount, loadFailedCount, outcomes>>
    ELSE LET itemData == ItemResource(f.id, remote.dirty)
             valid == f.ph = "resp" /\ itemData.body = "obj"
         IN /\ it' = [it EXCEPT ![j] =
                        [f EXCEPT !.ph = "done", !.got = "",
                                  !.why = IF valid THEN "ok"
                                          ELSE IF f.ph = "resp" THEN "parse" ELSE "fetch",
                                  !.rec = IF valid
                                          THEN ItemRecord(itemIndex[off + j], itemData, now, run)
                                          ELSE NoRec]]
            /\ loadedCount' = IF valid THEN loadedCount + 1 ELSE loadedCount
            /\ loadFailedCount' = IF valid THEN loadFailedCount ELSE loadFailedCount + 1
            /\ outcomes' = MapPut(outcomes, ItemUrl(f.id), Outcome(f))

item_settle(j) ==
    /\ it[j].ph = "flight"
    /\ \E ans \in Answers(ItemResource(it[j].id, remote.dirty).status) :
          /\ faults' = faults + Cost(ItemResource(it[j].id, remote.dirty).status, ans)
          /\ ItemResume(j, fetchWithRetry(it[j], ans, itemRetries))
    /\ UNCHANGED <<envVars, swVars, workflows, dbVars, pc, run, result, errors, itemIndex, tf, off,
                   workflowCount, completed, processedItems, failedItems,
                   storeCompleted, storeFailed, hist, counted, batchLog, snap, appVars, progress>>

item_timer(j) ==
    /\ it[j].ph = "wait"
    /\ faults' = faults
    /\ ItemResume(j, fetchWithRetry(it[j], "timer", itemRetries))
    /\ UNCHANGED <<envVars, swVars, workflows, dbVars, pc, run, result, errors, itemIndex, tf, off,
                   workflowCount, completed, processedItems, failedItems,
                   storeCompleted, storeFailed, hist, counted, batchLog, snap, appVars, progress>>

\* variant: the failed count of the batch is not added to failedItems
AfterBatch_dropFailed(succeeded, failed) ==
    /\ processedItems' = processedItems + succeeded
    /\ failedItems' = failedItems
    /\ off' = off + batchSize
    /\ pc' = "loop"

\* importData after storeItemBatch resolved with {succeeded, failed}
AfterBatch(succeeded, failed) ==
    /\ processedItems' = processedItems + succeeded
    /\ failedItems' = failedItems + failed
    /\ off' = off + batchSize
    /\ pc' = "loop"

\* variant: the batch failure is pushed to errors without updateProgress
BatchFailed_silent ==
    /\ errors' = Append(errors, "batch")
    /\ progress' = progress
    /\ failedItems' = failedItems + Len(Batch)
    /\ processedItems' = processedItems
    /\ off' = off + batchSize
    /\ pc' = "loop"

\* importData after storeItemBatch rejected
BatchFailed ==
    /\ errors' = Append(errors, "batch")
    /\ progress' = Append(progress, "batch")
    /\ failedItems' = failedItems + Len(Batch)
    /\ processedItems' = processedItems
    /\ off' = off + batchSize
    /\ pc' = "loop"

\* variant: Promise.race, the first item promise to resolve opens the transaction
AnySettled == \E j \in DOMAIN it : it[j].ph = "done"

\* Promise.all(itemPromises): every item promise of the batch has resolved
AllSettled == \A j \in DOMAIN it : it[j].ph = "done"

\* variant: a batch without valid items resolves with no failure counted
storeItemBatch_emptyUncounted ==
    /\ pc = "batchfetch" /\ cur = NoTx
    /\ AllSettled
    /\ LET items == [j \in DOMAIN it |-> it[j].rec]
           validItems == SelectSeq(items, LAMBDA item : item # NoRec)
           puts == [x \in DOMAIN validItems |->
                      Put("items", validItems[x].uniqueId, validItems[x])]
       IN IF validItems = <<>>
          THEN /\ batchLog' = Append(batchLog,
                                      Settled("resolved", 0, 0, {}, FALSE))
               /\ AfterBatch(0, 0)
               /\ UNCHANGED <<cur, storeCompleted, storeFailed, hist>>
          ELSE /\ cur' = Tx("items", off, puts)
               /\ storeCompleted' = 0 /\ storeFailed' = 0
               /\ pc' = "batchstore"
               /\ hist' = hist \cup {"write"}
               /\ UNCHANGED <<batchLog, processedItems, failedItems, off>>
    /\ UNCHANGED <<envVars, swVars, workflows, faults, ready, store, txq, run, result, errors, itemIndex,
                   tf, it, workflowCount, completed, loadedCount, loadFailedCount,
                   counted, outcomes, snap, appVars, progress>>

\* storeItemBatch after Promise.all: one transaction, one put per valid item
storeItemBatch ==
    /\ pc = "batchfetch" /\ cur = NoTx
    /\ AllSettled
    /\ LET items == [j \in DOMAIN it |-> it[j].rec]
           validItems == SelectSeq(items, LAMBDA item : item # NoRec)
           puts == [x \in DOMAIN validItems |->
                      Put("items", validItems[x].uniqueId, validItems[x])]
       IN IF validItems = <<>>
          THEN /\ batchLog' = Append(batchLog,
                                      Settled("resolved", 0, loadFailedCount, {}, FALSE))
               /\ AfterBatch(0, loadFailedCount)
               /\ UNCHANGED <<cur, storeCompleted, storeFailed, hist>>
          ELSE /\ cur' = Tx("items", off, puts)
               /\ storeCompleted' = 0 /\ storeFailed' = 0
               /\ pc' = "batchstore"
               /\ hist' = hist \cup {"write"}
               /\ UNCHANGED <<batchLog, processedItems, failedItems, off>>
    /\ UNCHANGED <<envVars, swVars, workflows, faults, ready, store, txq, run, result, errors, itemIndex,
                   tf, it, workflowCount, completed, loadedCount, loadFailedCount,
                   counted, outcomes, snap, appVars, progress>>

\* variant: the first put request to report resolves the batch
checkDone_first(done, failed, total) == done + failed >= 1

\* checkDone: every put request of the batch has reported
checkDone(done, failed, total) == done + failed = total

\* storeItemBatch: request.onsuccess counts, checkDone resolves
storeItemBatch_onsuccess ==
    /\ cur.step = "items" /\ CanServe
    /\ IF Served.pend = <<>>
       THEN txq' = Append(txq, Served) /\ cur' = NoTx
       ELSE cur' = Served /\ txq' = txq
    /\ storeCompleted' = storeCompleted + 1
    /\ storeFailed' = storeFailed
    /\ IF pc = "batchstore" /\ checkDone(storeCompleted', storeFailed, cur.total)
       THEN /\ batchLog' = Append(batchLog,
                                   Settled("resolved", storeCompleted',
                                           loadFailedCount + storeFailed,
                                           Ids(Served.writes), FALSE))
            /\ counted' = counted \cup Ids(Served.writes)
            /\ AfterBatch(storeCompleted', loadFailedCount + storeFailed)
       ELSE UNCHANGED <<batchLog, counted, processedItems, failedItems, off, pc>>
    /\ UNCHANGED <<envVars, swVars, workflows, faults, ready, store, run, result, errors, itemIndex, tf,
                   it, workflowCount, completed, loadedCount, loadFailedCount, hist,
                   outcomes, snap, appVars, progress>>

\* storeItemBatch: request.onerror counts and checkDone may resolve, then
\* transaction.onerror rejects, then the transaction aborts
storeItemBatch_onerror ==
    /\ cur.step = "items" /\ CanServe
    /\ faults < MaxFaults
    /\ faults' = faults + 1
    /\ hist' = hist \cup {"storeFault"}
    /\ cur' = NoTx
    /\ storeFailed' = storeFailed + 1
    /\ storeCompleted' = storeCompleted
    /\ IF pc # "batchstore"
       THEN UNCHANGED <<batchLog, counted, processedItems, failedItems, off, pc, errors,
                        progress>>
       ELSE IF checkDone(storeCompleted, storeFailed', cur.total)
       THEN /\ batchLog' = Append(batchLog,
                                   Settled("resolved", storeCompleted,
                                           loadFailedCount + storeFailed', {}, TRUE))
            /\ counted' = counted \cup Ids(cur.writes)
            /\ AfterBatch(storeCompleted, loadFailedCount + storeFailed')
            /\ UNCHANGED <<errors, progress>>
       ELSE /\ batchLog' = Append(batchLog, Settled("rejected", 0, 0, {}, TRUE))
            /\ BatchFailed
            /\ UNCHANGED counted
    /\ UNCHANGED <<envVars, swVars, workflows, ready, store, txq, run, result, itemIndex, tf, it,
                   workflowCount, completed, loadedCount, loadFailedCount, outcomes,
                   snap, appVars>>

(* ------------------------ presentation callers ------------------------- *)
\* getResult(uniqueId): the record of the items store, undefined if absent
getResult(uniqueId) ==
    IF uniqueId \in DOMAIN store.items THEN store.items[uniqueId] ELSE NoRec
getWorkflows == {store.workflows[k] : k \in DOMAIN store.workflows}
getWorkflowItems(workflowId) ==
    {store.items[k] : k \in {x \in DOMAIN store.items : store.items[x].workflowId = workflowId}}

\* initDB called by a presentation caller (loadItemDataFromIndexedDB calls
\* it when the store is not ready): true at once when ready, else
\* indexedDB.open is issued, whether or not another open is under way
initDB ==
    /\ app # "initDB"
    /\ app' = IF ready THEN "true" ELSE "initDB"
    /\ UNCHANGED <<envVars, swVars, workflows, faults, dbVars, pc, run, result, errors, itemIndex, tf, off,
                   it, cntVars, hist, counted, batchLog, outcomes, snap, progress,
                   conns, q>>

\* request.onsuccess of the open issued for the presentation caller
initDB_caller_onsuccess ==
    /\ app = "initDB"
    /\ ready' = TRUE /\ conns' = conns + 1
    /\ app' = "true"
    /\ UNCHANGED <<envVars, swVars, workflows, faults, store, txq, cur, pc, run, result, errors, itemIndex,
                   tf, off, it, cntVars, hist, counted, batchLog, outcomes, snap,
                   progress, q>>

\* request.onerror of the open issued for the presentation caller
initDB_caller_onerror ==
    /\ app = "initDB" /\ faults < MaxFaults
    /\ faults' = faults + 1
    /\ app' = "rejected"
    /\ UNCHANGED <<envVars, swVars, workflows, dbVars, pc, run, result, errors, itemIndex, tf, off, it,
                   cntVars, hist, counted, batchLog, outcomes, snap, progress, conns, q>>

Ops == {"getWorkflows", "getWorkflowItems", "getResult", "clearDatabase"}
\* no transaction that overlaps the scope of op is outstanding
Quiet(op) ==
    /\ pc # "clear"
    /\ cur = NoTx \/ cur.step \notin Scope(op)
    /\ \A x \in DOMAIN txq : txq[x].step \notin Scope(op)

\* variant: the operation does not look at this.ready
query_unchecked(op, uniqueId, workflowId) ==
    /\ q.ph # "pending"
    /\ Quiet(op)
    /\ q' = [op |-> op, uniqueId |-> uniqueId, workflowId |-> workflowId,
             ph |-> "pending", tx |-> TRUE, res |-> {}, err |-> ""]
    /\ UNCHANGED <<envVars, swVars, workflows, faults, dbVars, pc, run, result, errors, itemIndex, tf, off,
                   it, cntVars, hist, counted, batchLog, outcomes, snap, progress,
                   conns, app>>

\* getWorkflows, getWorkflowItems, getResult or clearDatabase called by a
\* presentation caller: rejected at once when the store is not ready, else
\* its transaction is opened (at a moment when no transaction that overlaps
\* its scope is outstanding)
query(op, uniqueId, workflowId) ==
    /\ q.ph # "pending"
    /\ IF ~ready
       THEN q' = [op |-> op, uniqueId |-> uniqueId, workflowId |-> workflowId,
                  ph |-> "rejected", tx |-> FALSE, res |-> {},
                  err |-> "Database not initialized"]
       ELSE /\ Quiet(op)
            /\ q' = [op |-> op, uniqueId |-> uniqueId, workflowId |-> workflowId,
                     ph |-> "pending", tx |-> TRUE, res |-> {}, err |-> ""]
    /\ UNCHANGED <<envVars, swVars, workflows, faults, dbVars, pc, run, result, errors, itemIndex, tf, off,
                   it, cntVars, hist, counted, batchLog, outcomes, snap, progress,
                   conns, app>>

\* request.onsuccess of a read, transaction.oncomplete of clearDatabase
query_onsuccess ==
    /\ q.ph = "pending"
    /\ q' = [q EXCEPT !.ph = "resolved",
                      !.res = CASE q.op = "getWorkflows" -> getWorkflows
                                [] q.op = "getWorkflowItems" -> getWorkflowItems(q.workflowId)
                                [] q.op = "getResult" -> {getResult(q.uniqueId)} \ {NoRec}
                                [] OTHER -> {}]
    /\ store' = IF q.op = "clearDatabase" THEN EmptyStore ELSE store
    /\ UNCHANGED <<envVars, swVars, workflows, faults, ready, txq, cur, pc, run, result, errors, itemIndex,
                   tf, off, it, cntVars, hist, counted, batchLog, outcomes, snap,
                   progress, conns, app>>

\* request.onerror of a read, transaction.onerror of clearDatabase
query_onerror ==
    /\ q.ph = "pending" /\ faults < MaxFaults
    /\ faults' = faults + 1
    /\ q' = [q EXCEPT !.ph = "rejected", !.err = "error"]
    /\ UNCHANGED <<envVars, swVars, workflows, dbVars, pc, run, result, errors, itemIndex, tf, off, it,
                   cntVars, hist, counted, batchLog, outcomes, snap, progress, conns,
                   app>>

(* ------------------------- ExportedApp (app.js) ------------------------- *)
\* loadWorkflows: data/workflows.json is fetched, parsed and normalised into
\* this.workflows; any failure leaves this.workflows empty
loadWorkflows ==
    /\ ~workflows.loaded
    /\ workflows' = IF remote.workflowsStatus = "up"
                    THEN LoadedWorkflows(RemoteWorkflows(remote))
                    ELSE [loaded |-> TRUE, ok |-> FALSE, map |-> <<>>]
    /\ UNCHANGED <<swVars, dbmVars>>

(* --------------------- service worker: lifecycle ---------------------- *)
\* the install event: caches.open(CACHE_NAME) is issued
install ==
    /\ life.ph = "parsed"
    /\ life' = [life EXCEPT !.ph = "opening"]
    /\ UNCHANGED <<caches, cachePuts, evs, srv, dbmVars, workflows>>

\* caches.open resolves: one cache.add per manifest URL is started
caches_open_then ==
    /\ life.ph = "opening"
    /\ caches' = CachesOpen(caches, CACHE_NAME)
    /\ life' = [life EXCEPT !.ph = "adding", !.adds = PRECACHE_URLS]
    /\ UNCHANGED <<cachePuts, evs, srv, dbmVars, workflows>>

\* caches.open rejects: the outer catch logs, install ends without skipWaiting
caches_open_catch ==
    /\ life.ph = "opening"
    /\ life' = [life EXCEPT !.ph = "installed"]
    /\ UNCHANGED <<caches, cachePuts, evs, srv, dbmVars, workflows>>

\* cache.add(url) resolves: the file was fetched and stored
cache_add_then(u) ==
    /\ life.ph = "adding" /\ u \in life.adds
    /\ caches' = CachePut(caches, CACHE_NAME, u, Response(Bytes(srv), 200))
    /\ life' = AddSettled(life, u, TRUE)
    /\ UNCHANGED <<cachePuts, evs, srv, dbmVars, workflows>>

\* cache.add(url) rejects (unreachable, or a non-ok answer): the catch warns
cache_add_catch(u) ==
    /\ life.ph = "adding" /\ u \in life.adds
    /\ life' = AddSettled(life, u, FALSE)
    /\ UNCHANGED <<caches, cachePuts, evs, srv, dbmVars, workflows>>

\* the activate event: caches.keys() is issued
activate ==
    /\ life.ph = "installed"
    /\ life' = [life EXCEPT !.ph = "keys"]
    /\ UNCHANGED <<caches, cachePuts, evs, srv, dbmVars, workflows>>

\* caches.keys() resolves: one caches.delete per name other than CACHE_NAME
caches_keys_then ==
    /\ life.ph = "keys"
    /\ LET stale == CachesKeys(caches) \ {CACHE_NAME}
           l1    == [life EXCEPT !.seen = caches, !.dels = stale, !.ph = "deleting"]
       IN  life' = IF stale = {}
                   THEN [l1 EXCEPT !.ph = "activated", !.claimed = TRUE]
                   ELSE l1
    /\ UNCHANGED <<caches, cachePuts, evs, srv, dbmVars, workflows>>

\* caches.delete(name) resolves
caches_delete_then(n) ==
    /\ life.ph = "deleting" /\ n \in life.dels
    /\ caches' = CachesDelete(caches, n)
    /\ life' = DeleteSettled(life, n)
    /\ UNCHANGED <<cachePuts, evs, srv, dbmVars, workflows>>

(* ----------------------- service worker: fetch ------------------------ *)
\* new content is deployed to the server
deploy ==
    /\ srv < MaxDeploys
    /\ srv' = srv + 1
    /\ UNCHANGED <<caches, cachePuts, evs, life, dbmVars, workflows>>

\* a fetch event of the page reaches the worker: its listeners run
FetchEvent(req) ==
    /\ life.ph = "activated"
    /\ Len(evs) < MaxRequests
    /\ evs' = Append(evs, [Dispatch(req) EXCEPT
                             !.prior = {y \in 1..Len(evs) : evs[y].ph = "done"}])
    /\ UNCHANGED <<caches, cachePuts, srv, life, dbmVars, workflows>>

\* variant: a cached match is revalidated against the network
caches_match_then_revalidate(x) ==
    /\ x \in 1..Len(evs)
    /\ evs[x].ph \in {"match", "rematch", "offline"}
    /\ LET e   == evs[x]
           hit == CachesMatch(caches, IF e.ph = "offline" THEN OfflineUrl ELSE e.request.url)
       IN  evs' = [evs EXCEPT ![x] =
                 IF e.ph = "match"
                 THEN [e EXCEPT !.ph = "fetch", !.miss = (hit = NoResponse), !.fetched = TRUE]
                 ELSE Done([e EXCEPT !.miss = (hit = NoResponse)], hit)]
    /\ UNCHANGED <<caches, cachePuts, srv, life, dbmVars, workflows>>

\* caches.match settles, and the handler chained to it runs
caches_match_then(x) ==
    /\ x \in 1..Len(evs)
    /\ evs[x].ph \in {"match", "rematch", "offline"}
    /\ LET e   == evs[x]
           hit == CachesMatch(caches, IF e.ph = "offline" THEN OfflineUrl ELSE e.request.url)
       IN  evs' = [evs EXCEPT ![x] =
                 IF e.ph = "match" /\ hit = NoResponse
                 THEN [e EXCEPT !.ph = "fetch", !.miss = TRUE, !.fetched = TRUE]
                 ELSE Done([e EXCEPT !.miss = (hit = NoResponse)], hit)]
    /\ UNCHANGED <<caches, cachePuts, srv, life, dbmVars, workflows>>

\* variant: only a response with an ok status is put in the cache
fetch_then_okOnly(x, status) ==
    /\ x \in 1..Len(evs)
    /\ evs[x].ph = "fetch"
    /\ LET e    == evs[x]
           resp == Response(Bytes(srv), status)
       IN  /\ evs' = [evs EXCEPT ![x] = Done(e, resp)]
           /\ cachePuts' = IF e.by = "data" \/ status # 200 THEN cachePuts
                      ELSE cachePuts \cup {[name |-> CACHE_NAME, url |-> e.request.url, resp |-> resp]}
    /\ UNCHANGED <<caches, srv, life, dbmVars, workflows>>

\* fetch(req) resolves with a response of the given status
fetch_then(x, status) ==
    /\ x \in 1..Len(evs)
    /\ evs[x].ph = "fetch"
    /\ LET e    == evs[x]
           resp == Response(Bytes(srv), status)
       IN  /\ evs' = [evs EXCEPT ![x] = Done(e, resp)]
           /\ cachePuts' = IF e.by = "data" THEN cachePuts
                      ELSE cachePuts \cup {[name |-> CACHE_NAME, url |-> e.request.url, resp |-> resp]}
    /\ UNCHANGED <<caches, srv, life, dbmVars, workflows>>

\* fetch(req) rejects: the network is unreachable
fetch_catch(x) ==
    /\ x \in 1..Len(evs)
    /\ evs[x].ph = "fetch"
    /\ LET e == [evs[x] EXCEPT !.failed = TRUE]
       IN  evs' = [evs EXCEPT ![x] =
                 CASE e.by = "network-first" -> [e EXCEPT !.ph = "rematch"]
                   [] e.by = "cache-first" ->
                        IF e.request.mode = "navigate"
                        THEN [e EXCEPT !.ph = "offline"]
                        ELSE Done(e, NoResponse)
                   [] OTHER ->
                        IF IsWorkflows(e.request.url)
                        THEN Done(e, Response("{}", 200))
                        ELSE Done(e, NoResponse)]
    /\ UNCHANGED <<caches, cachePuts, srv, life, dbmVars, workflows>>

\* variant: a cache.put of older bytes than the slot holds is dropped
cache_put_keepNewer(p) ==
    /\ p \in cachePuts
    /\ caches' = IF /\ p.url \in DOMAIN RegionEntries(caches, p.name)
                    /\ Version(RegionEntries(caches, p.name)[p.url].body)
                          > Version(p.resp.body)
                 THEN caches
                 ELSE CachePut(caches, p.name, p.url, p.resp)
    /\ cachePuts' = cachePuts \ {p}
    /\ UNCHANGED <<evs, srv, life, dbmVars, workflows>>

\* a cache.put the listener started settles
cache_put(p) ==
    /\ p \in cachePuts
    /\ caches' = CachePut(caches, p.name, p.url, p.resp)
    /\ cachePuts' = cachePuts \ {p}
    /\ UNCHANGED <<evs, srv, life, dbmVars, workflows>>

(* --------------------------- specification ----------------------------- *)
Next ==
    \/ tick
    \/ transaction_oncomplete
    \/ importData
    \/ initDB_onsuccess
    \/ initDB_onerror
    \/ clearDatabase_oncomplete
    \/ clearDatabase_onerror
    \/ fetch_settle
    \/ fetch_timer
    \/ storeAppInfo_onsuccess
    \/ storeAppInfo_onerror
    \/ storeWorkflows_onsuccess
    \/ storeWorkflows_onerror
    \/ importData_loop
    \/ \E j \in DOMAIN it : item_settle(j)
    \/ \E j \in DOMAIN it : item_timer(j)
    \/ storeItemBatch
    \/ storeItemBatch_onsuccess
    \/ storeItemBatch_onerror

Spec == Init /\ [][Next]_vars

(* The import run against every workflows payload, in an environment that  *)
(* injects no fault: every fetch answers and every store request succeeds. *)
InitWf ==
    /\ remote \in WfRemotes
    /\ now = 0 /\ faults = MaxFaults
    /\ ready = FALSE /\ store = EmptyStore /\ txq = <<>> /\ cur = NoTx
    /\ pc = "idle" /\ run = 0 /\ result = "none" /\ errors = <<>>
    /\ itemIndex = <<>> /\ tf = Idle /\ off = 0 /\ it = <<>>
    /\ workflowCount = 0 /\ completed = 0 /\ processedItems = 0 /\ failedItems = 0
    /\ loadedCount = 0 /\ loadFailedCount = 0 /\ storeCompleted = 0 /\ storeFailed = 0
    /\ hist = {} /\ counted = {} /\ batchLog = <<>> /\ outcomes = EmptyMap
    /\ snap = NoSnap /\ progress = <<>> /\ conns = 0 /\ app = "idle" /\ q = NoQuery
    /\ caches = Precached({}) /\ cachePuts = {} /\ evs = <<>>
    /\ srv = 0 /\ life = Activated /\ workflows = NotLoaded

NextWf ==
    \/ tick
    \/ transaction_oncomplete
    \/ importData
    \/ initDB_onsuccess
    \/ clearDatabase_oncomplete
    \/ fetch_settle
    \/ storeAppInfo_onsuccess
    \/ storeWorkflows_onsuccess
    \/ importData_loop

SpecWf == InitWf /\ [][NextWf]_vars

\* the page reads the exported workflows on both paths: the import run of
\* DBManager and loadWorkflows of ExportedApp
NextApp == NextWf \/ loadWorkflows

SpecApp == InitWf /\ [][NextApp]_vars

(* The import run together with the presentation callers of the DBManager, *)
(* on a database that a previous session may have left populated, against  *)
(* the remote that serves no item and no workflow.                         *)
OldStore ==
    [workflows |-> MapPut(EmptyMap, "w1", WorkflowRecord("w1", WorkflowEntry("w1", <<>>), 0)),
     items |-> MapPut(EmptyMap, 1, ItemRecord(IndexEntry(1, FALSE), ItemResource(1, FALSE), 0, 0)),
     appInfo |-> MapPut(EmptyMap, "appInfo", AppInfoRecord(FallbackAppInfo, 0))]

InitQ ==
    /\ remote \in {r \in Remotes : r.n = 0}
    /\ now = 0 /\ faults = 0
    /\ ready = FALSE /\ store \in {EmptyStore, OldStore} /\ txq = <<>> /\ cur = NoTx
    /\ pc = "idle" /\ run = 0 /\ result = "none" /\ errors = <<>>
    /\ itemIndex = <<>> /\ tf = Idle /\ off = 0 /\ it = <<>>
    /\ workflowCount = 0 /\ completed = 0 /\ processedItems = 0 /\ failedItems = 0
    /\ loadedCount = 0 /\ loadFailedCount = 0 /\ storeCompleted = 0 /\ storeFailed = 0
    /\ hist = {} /\ counted = {} /\ batchLog = <<>> /\ outcomes = EmptyMap
    /\ snap = NoSnap /\ progress = <<>> /\ conns = 0 /\ app = "idle" /\ q = NoQuery
    /\ caches = Precached({}) /\ cachePuts = {} /\ evs = <<>>
    /\ srv = 0 /\ life = Activated /\ workflows = NotLoaded

NextQ ==
    \/ tick
    \/ transaction_oncomplete
    \/ importData
    \/ initDB_onsuccess
    \/ initDB_onerror
    \/ clearDatabase_oncomplete
    \/ clearDatabase_onerror
    \/ fetch_settle
    \/ fetch_timer
    \/ storeAppInfo_onsuccess
    \/ storeAppInfo_onerror
    \/ importData_loop
    \/ initDB
    \/ initDB_caller_onsuccess
    \/ initDB_caller_onerror
    \/ \E op \in Ops : query(op, 1, "w1")
    \/ query_onsuccess
    \/ query_onerror

SpecQ == InitQ /\ [][NextQ]_vars

\* every fetch, timer and storage request that is outstanding settles: the
\* steps of a run other than its start
Settles ==
    \/ transaction_oncomplete
    \/ initDB_onsuccess
    \/ initDB_onerror
    \/ clearDatabase_oncomplete
    \/ clearDatabase_onerror
    \/ fetch_settle
    \/ fetch_timer
    \/ storeAppInfo_onsuccess
    \/ storeAppInfo_onerror
    \/ storeWorkflows_onsuccess
    \/ storeWorkflows_onerror
    \/ importData_loop
    \/ \E j \in DOMAIN it : item_settle(j)
    \/ \E j \in DOMAIN it : item_timer(j)
    \/ storeItemBatch
    \/ storeItemBatch_onsuccess
    \/ storeItemBatch_onerror

\* the import run of a page load, under the assumption that what is
\* outstanding settles
NextLive == (run = 0 /\ importData) \/ Settles

SpecLive == Init /\ [][NextLive]_vars /\ WF_vars(Settles)

\* the activated service worker: the page issues requests against a cache
\* that holds the precached files whose cache.add succeeded at install
InitSW ==
    /\ remote \in {r \in Remotes : r.n = 0}
    /\ now = 0 /\ faults = 0
    /\ ready = FALSE /\ store = EmptyStore /\ txq = <<>> /\ cur = NoTx
    /\ pc = "idle" /\ run = 0 /\ result = "none" /\ errors = <<>>
    /\ itemIndex = <<>> /\ tf = Idle /\ off = 0 /\ it = <<>>
    /\ workflowCount = 0 /\ completed = 0 /\ processedItems = 0 /\ failedItems = 0
    /\ loadedCount = 0 /\ loadFailedCount = 0 /\ storeCompleted = 0 /\ storeFailed = 0
    /\ hist = {} /\ counted = {} /\ batchLog = <<>> /\ outcomes = EmptyMap
    /\ snap = NoSnap /\ progress = <<>> /\ conns = 0 /\ app = "idle" /\ q = NoQuery
    /\ caches \in { Precached(S) :
                      S \in {{}, PRECACHE_URLS \ {OfflineUrl}, PRECACHE_URLS} }
    /\ cachePuts = {} /\ evs = <<>>
    /\ srv = 0 /\ life = Activated /\ workflows = NotLoaded

NextSW ==
    \/ \E req \in Requests : FetchEvent(req)
    \/ \E x \in 1..MaxRequests : caches_match_then(x)
    \/ \E x \in 1..MaxRequests, status \in {200, 404} : fetch_then(x, status)
    \/ \E x \in 1..MaxRequests : fetch_catch(x)
    \/ \E p \in cachePuts : cache_put(p)
    \/ deploy

SpecSW == InitSW /\ [][NextSW]_vars

\* the worker's lifecycle: a new version of the worker is installed and
\* activated next to the cache regions of earlier versions
InitLife ==
    /\ remote \in {r \in Remotes : r.n = 0}
    /\ now = 0 /\ faults = 0
    /\ ready = FALSE /\ store = EmptyStore /\ txq = <<>> /\ cur = NoTx
    /\ pc = "idle" /\ run = 0 /\ result = "none" /\ errors = <<>>
    /\ itemIndex = <<>> /\ tf = Idle /\ off = 0 /\ it = <<>>
    /\ workflowCount = 0 /\ completed = 0 /\ processedItems = 0 /\ failedItems = 0
    /\ loadedCount = 0 /\ loadFailedCount = 0 /\ storeCompleted = 0 /\ storeFailed = 0
    /\ hist = {} /\ counted = {} /\ batchLog = <<>> /\ outcomes = EmptyMap
    /\ snap = NoSnap /\ progress = <<>> /\ conns = 0 /\ app = "idle" /\ q = NoQuery
    /\ caches \in { StaleCaches(k) : k \in 0..MaxStale }
    /\ cachePuts = {} /\ evs = <<>>
    /\ srv \in 0..MaxDeploys /\ life = Parsed0 /\ workflows = NotLoaded

NextLife ==
    \/ install
    \/ caches_open_then
    \/ caches_open_catch
    \/ \E u \in PRECACHE_URLS : cache_add_then(u)
    \/ \E u \in PRECACHE_URLS : cache_add_catch(u)
    \/ activate
    \/ caches_keys_then
    \/ \E n \in CachesKeys(caches) : caches_delete_then(n)

SpecLife == InitLife /\ [][NextLife]_vars

(* ------------------------------- claims -------------------------------- *)
RunEnded == pc = "idle" /\ run >= 1
Plain(rec) == [f \in (DOMAIN rec) \ {"run"} |-> rec[f]]
Fetching == \E j \in DOMAIN it : Active(it[j])

\* C1 (as claimed): a run returns false exactly when initDB failed; every
\* failure of steps 2-6 still ends in true
C1_CompletedUnlessInitFails ==
    RunEnded => (result = "false" <=> "initFailed" \in hist)

\* C2: once initDB has failed the run has returned false and has issued no
\* clearDatabase, no fetch and no store write
C2_InitFailureStopsRun ==
    "initFailed" \in hist =>
        /\ pc = "idle" /\ result = "false"
        /\ hist \cap {"clear", "cleared", "fetch", "write"} = {}
        /\ ~Active(tf) /\ ~Fetching /\ cur = NoTx
C2_Witness == "initFailed" \in hist /\ result = "false" /\ run = 1

\* C3 (as claimed): a run that returns false has issued no network fetch
C3_FalseOnlyBeforeNetwork ==
    (RunEnded /\ result = "false") => "fetch" \notin hist

\* C4: a batch in which exactly one item fetch failed all its retries while
\* the others were fetched, parsed and stored reports succeeded = N-1 and
\* failed = 1, its transaction wrote exactly the good records, and the run
\* ends true with a non-empty warnings list and the good records stored
OneFetchFailed(b) ==
    /\ b.kind = "resolved" /\ ~b.putFailed
    /\ Cardinality({j \in DOMAIN b.why : b.why[j] = "fetch"}) = 1
    /\ \A j \in DOMAIN b.why : b.why[j] \in {"fetch", "ok"}
C4_OneFailedFetch ==
    \A x \in DOMAIN batchLog :
        LET b == batchLog[x]
            good == {b.ids[j] : j \in {j \in DOMAIN b.why : b.why[j] = "ok"}}
            bad == {b.ids[j] : j \in {j \in DOMAIN b.why : b.why[j] = "fetch"}}
        IN OneFetchFailed(b) =>
             /\ b.succeeded = Len(b.ids) - 1 /\ b.failed = 1
             /\ b.written = good
             /\ pc = "idle" => (result = "true" /\ errors # <<>>)
             /\ (pc = "idle" /\ txq = <<>>) =>
                    /\ \A id \in good : getResult(id).uniqueId = id /\ getResult(id).run = run
                    /\ \A id \in bad : getResult(id).run # run
C4_Witness ==
    /\ pc = "idle" /\ txq = <<>>
    /\ \E x \in DOMAIN batchLog : OneFetchFailed(batchLog[x]) /\ Len(batchLog[x].ids) = batchSize

\* C5 (as claimed): two successive completed runs whose fetches answered
\* the same leave the store as the first run left it
Contents(s) ==
    [workflows |-> [k \in DOMAIN s.workflows |-> Plain(s.workflows[k])],
     items |-> [k \in DOMAIN s.items |-> Plain(s.items[k])],
     appInfo |-> s.appInfo]
TwiceDone ==
    /\ pc = "idle" /\ run >= 2 /\ result = "true"
    /\ snap.result = "true" /\ outcomes = snap.outcomes
AppInfoDated ==
    /\ "appInfo" \in DOMAIN outcomes /\ outcomes["appInfo"] = "resp"
    /\ remote.appInfo \in {"nested", "flat", "prim"}
    /\ RemoteAppInfo(remote).exportDate # 0
Timeless(s) ==
    [workflows |-> s.workflows,
     items |-> [k \in DOMAIN s.items |->
                  IF IndexEntry(k, remote.dirty).timestamp = 0
                  THEN [s.items[k] EXCEPT !.timestamp = 0] ELSE s.items[k]],
     appInfo |-> [k \in DOMAIN s.appInfo |->
                    IF AppInfoDated THEN s.appInfo[k]
                    ELSE [s.appInfo[k] EXCEPT !.exportDate = 0]]]
Fresh(s) ==
    /\ \A k \in DOMAIN s.workflows : s.workflows[k].run = run
    /\ \A k \in DOMAIN s.items : s.items[k].run = run
C6_NoStaleRecord == (RunEnded /\ run >= 2 /\ result = "true") => Fresh(EffectiveStore)

\* C6 (amended): from the moment clearDatabase of a run has succeeded,
\* every workflow and item record of the store was written by that run
C6_NoStaleRecordOnceCleared == "cleared" \in hist => Fresh(EffectiveStore)
C6_Witness ==
    /\ RunEnded /\ run >= 2 /\ "cleared" \in hist /\ txq = <<>>
    /\ \E k \in DOMAIN snap.store.items : k \notin DOMAIN store.items

\* C7 (as claimed): after a completed run, getResult of every id the run
\* counted as succeeded is the record of that id with its data defined
C7_CountedAreStored ==
    (RunEnded /\ result = "true" /\ txq = <<>> /\ ready) =>
        \A id \in counted :
            /\ getResult(id).uniqueId = id
            /\ getResult(id).data # Undef
            /\ getResult(id).data = IF ItemResource(id, remote.dirty).data # Undef
                                    THEN ItemResource(id, remote.dirty).data
                                    ELSE ItemResource(id, remote.dirty).raw

\* C8: the steps of a run start in the order Init, Clear, LoadIndex,
\* LoadAppInfo, LoadWorkflows, LoadItems, and every fetch or put request
\* that has not settled belongs to the step the run is in
StepOf(p) ==
    CASE p = "init" -> 1
      [] p = "clear" -> 2
      [] p = "index" -> 3
      [] p \in {"appInfo", "appstore", "fallback"} -> 4
      [] p \in {"workflows", "wfstore"} -> 5
      [] p \in {"loop", "batchfetch", "batchstore", "items"} -> 6
      [] OTHER -> 0
Unsettled ==
    (IF Active(tf) THEN {StepOf(tf.url)} ELSE {})
    \cup (IF cur.pend # <<>> THEN {StepOf(cur.step)} ELSE {})
    \cup (IF Fetching THEN {6} ELSE {})
C8_StepOrder ==
    [][ /\ Unsettled' \subseteq {StepOf(pc')}
        /\ \/ StepOf(pc') \in {StepOf(pc), StepOf(pc) + 1}
           \/ pc' = "idle"
           \/ pc = "idle" /\ pc' = (IF ready THEN "clear" ELSE "init") ]_vars
C8_Witness ==
    /\ pc = "batchstore" /\ {"init", "cleared"} \subseteq hist /\ workflowCount > 0
    /\ "appInfo" \in DOMAIN outcomes

\* C9 (as claimed): while a fetch of a batch is outstanding, the store
\* transaction of every earlier batch has committed or aborted
C9_BatchAfterCommit ==
    Fetching => /\ cur.step # "items"
                /\ \A x \in DOMAIN txq : txq[x].step # "items"

\* C9 (amended): batches run in index order and a fetch of a batch is
\* outstanding only after every put request of the earlier batches has
\* settled (the commit of their transactions may still be outstanding)
C9_BatchAfterRequests ==
    /\ Fetching => (cur = NoTx /\ pc = "batchfetch")
    /\ pc \in {"batchfetch", "batchstore"} => off = batchSize * Len(batchLog)
    /\ cur.step = "items" => cur.batch = off
C9_Witness ==
    /\ Fetching /\ off > 0
    /\ \E x \in DOMAIN txq : txq[x].step = "items" /\ txq[x].batch < off

\* C10: the transaction of a batch is open only when every item promise of
\* the batch has resolved, and its put requests are exactly the items whose
\* fetch and validation succeeded
ValidItem(j) ==
    /\ it[j].ph = "done"
    /\ ItemUrl(it[j].id) \in DOMAIN outcomes /\ outcomes[ItemUrl(it[j].id)] = "resp"
    /\ ItemResource(it[j].id, remote.dirty).body = "obj"
C10_TransactionAfterFetches ==
    cur.step = "items" =>
        /\ \A j \in DOMAIN it : it[j].ph = "done"
        /\ Ids(cur.writes) \cup Ids(cur.pend) = {it[j].id : j \in {j \in DOMAIN it : ValidItem(j)}}
        /\ cur.total = Cardinality({j \in DOMAIN it : ValidItem(j)})
C10_Witness ==
    /\ cur.step = "items" /\ cur.writes = <<>>
    /\ cur.total > 1 /\ cur.total < Len(it)
    /\ \E j \in DOMAIN it : it[j].why = "parse"

(* ------------------- claims on the workflow normaliser ------------------ *)
Entries == RemoteWorkflows(remote).entries
IsArrayPayload == RemoteWorkflows(remote).shape = "array"
HasItemsArray(x) == Entries[x].val.t = "obj" /\ Entries[x].val.items.k = "array"
\* the key an entry is stored under: its key in a mapping, its own id
\* field (id, else workflowId) or "workflow-" + index in an array
KeyOf(x) ==
    IF IsArrayPayload
    THEN Or(Entries[x].val.id, Or(Entries[x].val.workflowId, "workflow-" \o ToString(x - 1)))
    ELSE Entries[x].key
Persisted(x) ==
    /\ KeyOf(x) \in DOMAIN store.workflows
    /\ store.workflows[KeyOf(x)].id = KeyOf(x)
    /\ store.workflows[KeyOf(x)].run = run
WorkflowsLoaded ==
    /\ pc = "idle" /\ result = "true" /\ txq = <<>>
    /\ "workflows" \in DOMAIN outcomes /\ outcomes["workflows"] = "resp"

\* C11 (as claimed): once a run has fetched the workflows payload and
\* ended, an entry of the payload is in the workflows store exactly when it
\* carries an items array, whatever the other entries are
C11_PersistedIffItemsArray ==
    WorkflowsLoaded => \A x \in DOMAIN Entries : Persisted(x) <=> HasItemsArray(x)

\* C12 (as claimed): when the payload is an array, the keys of the
\* workflows store after the run are exactly the keys of the array entries
\* that carry an items array, and every record holds its items as an array
C12_OneRecordPerValidEntry ==
    (WorkflowsLoaded /\ IsArrayPayload) =>
        /\ DOMAIN store.workflows = {KeyOf(x) : x \in {y \in DOMAIN Entries : HasItemsArray(y)}}
        /\ \A k \in DOMAIN store.workflows :
               DOMAIN store.workflows[k].items = 1..Len(store.workflows[k].items)

\* the entry a stored workflow record was built from: the last one of its key
Source(k) ==
    LET xs == {x \in DOMAIN Entries : HasItemsArray(x) /\ KeyOf(x) = k}
    IN Entries[CHOOSE x \in xs : \A y \in xs : y <= x].val
Objects(elems) == SelectSeq(elems, LAMBDA e : e.t = "obj")

AppInfoFailed ==
    /\ "appInfo" \in DOMAIN outcomes
    /\ \/ outcomes["appInfo"] # "resp"
       \/ remote.appInfo \notin {"nested", "flat", "prim"}

\* C14: the appInfo store never holds more than one record, after a run
\* that returned true it holds exactly the record of key 'appInfo', and
\* when the fetch or the parse of the app metadata failed in that run the
\* record is the fallback: version "1.0.0", name "HydroBlox"
C14_OneAppInfo ==
    /\ Cardinality(DOMAIN EffectiveStore.appInfo) <= 1
    /\ Cardinality(DOMAIN store.appInfo) <= 1
    /\ (RunEnded /\ result = "true") =>
          /\ DOMAIN EffectiveStore.appInfo = {"appInfo"}
          /\ EffectiveStore.appInfo["appInfo"].key = "appInfo"
          /\ AppInfoFailed =>
                /\ EffectiveStore.appInfo["appInfo"].version = "1.0.0"
                /\ EffectiveStore.appInfo["appInfo"].name = "HydroBlox"
C14_Witness ==
    /\ RunEnded /\ result = "true" /\ run = 2 /\ txq = <<>>
    /\ AppInfoFailed /\ "cleared" \notin hist
    /\ store.appInfo["appInfo"].name = "HydroBlox"

(* ----------------------- claims on fetchWithRetry ---------------------- *)
\* C15 (as claimed): every fetchWithRetry call of a run has returned a
\* response or thrown the error of its last attempt, never undefined
C15_ResponseOrError ==
    \A url \in DOMAIN outcomes : outcomes[url] \in {"resp", "error"}

\* C16: every attempt of a fetchWithRetry call has an index below the n of
\* the call (3 for the top-level resources, 2 for an item), an attempt after
\* the first is issued only once the one before it has answered without
\* success and its backoff has run out, and a call that has returned
\* issues no attempt
InOrder(f, n) ==
    Active(f) =>
        /\ f.i < n
        /\ f.ph = "wait" => f.got \in {"neterr", "http"}
        /\ (f.ph = "flight" /\ f.i = 0) => f.got = ""
        /\ (f.ph = "flight" /\ f.i > 0) => f.got \in {"neterr", "http"}
C16_AttemptsInOrder ==
    /\ InOrder(tf, defaultRetries)
    /\ Active(tf) => tf.url \notin DOMAIN outcomes
    /\ \A j \in DOMAIN it :
          /\ InOrder(it[j], itemRetries)
          /\ Active(it[j]) => ItemUrl(it[j].id) \notin DOMAIN outcomes
C16_Witness ==
    /\ "appInfo" \in DOMAIN outcomes /\ outcomes["appInfo"] = "undefined"
    /\ \E j \in DOMAIN it : it[j].ph = "flight" /\ it[j].i = itemRetries - 1
    /\ \E j \in DOMAIN it : it[j].ph = "done" /\ it[j].why = "ok" /\ it[j].i = 0

(* -------------------- claims on the progress callback ------------------ *)
Warnings == {"clear", "index", "appInfo", "workflows", "batch", "failed"}

\* C19: at every moment of a run the warnings that updateProgress has
\* received are, in the same order, the messages pushed to the errors list
C19_ProgressSeesWarnings ==
    SelectSeq(progress, LAMBDA m : m \in Warnings) = errors
C19_Witness ==
    /\ RunEnded /\ result = "true"
    /\ Len(errors) >= 3 /\ errors[1] = "clear" /\ errors[Len(errors)] = "failed"
    /\ \E x \in DOMAIN errors : errors[x] = "batch"

(* ------------------ claims on the presentation callers ----------------- *)
\* C17 (as claimed): whatever the order and overlap of the initDB calls of
\* importData and of the presentation callers, at most one connection to
\* the database is ever opened
C17_OpenedAtMostOnce == conns <= 1

\* C18: a query operation called while the store is not ready is rejected
\* with 'Database not initialized', opens no transaction and leaves the
\* store and every transaction as they were
C18_NotReadyRejected ==
    [][ (~ready /\ q' # q) =>
            /\ q'.ph = "rejected" /\ q'.err = "Database not initialized"
            /\ ~q'.tx
            /\ store' = store /\ txq' = txq /\ cur' = cur ]_vars
C18_Witness ==
    /\ ~ready /\ store = OldStore
    /\ q.op = "clearDatabase" /\ q.ph = "rejected" /\ q.err = "Database not initialized"

\* C20: a request for /data/ workflows.json that finds no cache entry and whose
\* network fetch fails is answered with the synthesized empty JSON object
C20_WorkflowsFallback ==
    \A x \in 1..Len(evs) :
        LET e == evs[x]
        IN  ( /\ InData(e.request.url) /\ IsWorkflows(e.request.url)
              /\ e.ph = "done" /\ e.miss /\ e.failed )
            => e.resp = Response("{}", 200)

\* the region CACHE_NAME of a CacheStorage, as a map from URL to response
Current(cs) == RegionEntries(cs, CACHE_NAME)

\* the network answered event e with a response
Answered(e) == e.ph = "done" /\ e.fetched /\ ~e.failed

\* C21: after a script/style request was answered from the network with new
\* bytes, a later request for the same resource whose network fetch fails is
\* answered from the cache with those bytes or newer ones
C21_FreshCopyServedOffline ==
    \A y \in 1..Len(evs) : \A x \in evs[y].prior :
        ( /\ evs[x].by = "network-first" /\ evs[y].by = "network-first"
          /\ evs[x].request = evs[y].request
          /\ Answered(evs[x]) /\ evs[x].resp.status = 200
          /\ evs[y].ph = "done" /\ evs[y].failed )
        => /\ evs[y].resp # NoResponse
           /\ Version(evs[y].resp.body) >= Version(evs[x].resp.body)

\* C22: a navigation that finds no cache entry and whose network fetch fails
\* is answered with the offline fallback document
C22_OfflineDocument ==
    \A x \in 1..Len(evs) :
        LET e == evs[x]
        IN  ( /\ e.by = "cache-first" /\ e.request.mode = "navigate"
              /\ e.ph = "done" /\ e.miss /\ e.failed )
            => e.resp # NoResponse

\* C23: a cache-first request with a cached match is answered with it, without
\* a network fetch and without touching the cache; without a match the
\* network is fetched and its response is put in the cache and returned
C23_CacheFirst ==
    [][ \A x \in 1..Len(evs) :
          LET e   == evs[x]
              e2  == evs'[x]
              hit == CachesMatch(caches, e.request.url)
          IN  (e.by = "cache-first" /\ e2 # e) =>
                /\ (e.ph = "match" /\ hit # NoResponse) =>
                      /\ e2.ph = "done" /\ e2.resp = hit /\ ~e2.fetched
                      /\ caches' = caches /\ cachePuts' = cachePuts
                /\ (e.ph = "match" /\ hit = NoResponse) =>
                      e2.ph = "fetch" /\ e2.fetched
                /\ (e.ph = "fetch" /\ ~e2.failed) =>
                      /\ e2.ph = "done" /\ e2.resp # NoResponse
                      /\ [name |-> CACHE_NAME, url |-> e.request.url, resp |-> e2.resp]
                             \in cachePuts'
    ]_vars

C23_Witness ==
    /\ \E x \in 1..Len(evs) :
          /\ evs[x].by = "cache-first" /\ evs[x].ph = "done"
          /\ ~evs[x].fetched /\ evs[x].resp # NoResponse
    /\ \E y \in 1..Len(evs) :
          /\ evs[y].by = "cache-first" /\ Answered(evs[y])
          /\ evs[y].request.url \in DOMAIN Current(caches)
          /\ Current(caches)[evs[y].request.url] = evs[y].resp

\* the stale regions activate saw, and the current region as it saw it
StaleSeen == CachesKeys(life.seen) \ {CACHE_NAME}
CurrentSeen == SelectSeq(life.seen, LAMBDA r : r.name = CACHE_NAME)

\* C24: when activate calls clients.claim(), every deletion has settled, the
\* regions named otherwise than CACHE_NAME are gone and the current region is
\* as it was
C24_StaleDeletedBeforeClaim ==
    (life.claimed /\ life.seen # <<>>) =>
        /\ life.dels = {}
        /\ CachesKeys(caches) \cap StaleSeen = {}
        /\ caches = CurrentSeen

C24_Witness ==
    /\ life.claimed
    /\ Cardinality(StaleSeen) = 2 /\ Len(CurrentSeen) = 1
    /\ caches = CurrentSeen

\* C25: the manifest URLs are cached independently of each other's failures,
\* and skipWaiting() is called only once every cache.add has settled
C25_IndependentPrecache ==
    /\ life.skipped => life.adds = {}
    /\ (life.ph = "adding" \/ (life.skipped /\ life.ph = "installed")) =>
          /\ \A u \in PRECACHE_URLS \ (life.adds \cup life.failed) :
                u \in DOMAIN Current(caches)
          /\ \A u \in life.failed : u \notin DOMAIN Current(caches)
    /\ life.ph = "adding" => life.adds # {}

C25_Witness ==
    /\ life.ph = "installed" /\ life.skipped
    /\ life.failed # {} /\ life.failed # PRECACHE_URLS
    /\ DOMAIN Current(caches) = PRECACHE_URLS \ life.failed

\* C26: once every request and every cache.put has settled, no cache slot
\* holds older bytes than it held before
C26_NeverOlder ==
    [][ (cachePuts' = {} /\ \A x \in 1..Len(evs) : evs[x].ph = "done") =>
          \A u \in DOMAIN Current(caches) :
              Version(Current(caches')[u].body) >= Version(Current(caches)[u].body)
    ]_vars

\* C26, as the code has it: the slot holds the response of the cache.put that
\* settled last, which is the response the network gave to one of the requests
C26_LastPutWins ==
    [][ \A p \in cachePuts \ cachePuts' :
          /\ Current(caches')[p.url] = p.resp
          /\ \E x \in 1..Len(evs) :
                Answered(evs[x]) /\ evs[x].request.url = p.url /\ evs[x].resp = p.resp
    ]_vars

C26_Witness ==
    /\ cachePuts = {}
    /\ \E x, y \in 1..Len(evs) :
          /\ evs[x].request = evs[y].request
          /\ Answered(evs[x]) /\ Answered(evs[y])
          /\ Version(evs[x].resp.body) < Version(evs[y].resp.body)
          /\ Current(caches)[evs[x].request.url] = evs[x].resp

\* C30: whatever the status of the network's response, a cache.put of it into
\* the current region is started and the response is returned before the put
\* settles; when the put settles it replaces the entry of that request
C30_PutStartedNotAwaited ==
    [][ /\ \A x \in 1..Len(evs) :
             LET e == evs[x]
                 e2 == evs'[x]
             IN  (e.ph = "fetch" /\ e2.ph = "done" /\ ~e2.failed) =>
                    /\ e2.resp.status \in {200, 404}
                    /\ [name |-> CACHE_NAME, url |-> e.request.url, resp |-> e2.resp]
                           \in cachePuts'
                    /\ caches' = caches
        /\ \A p \in cachePuts \ cachePuts' :
             p.name = CACHE_NAME /\ Current(caches')[p.url] = p.resp
    ]_vars

C30_Witness ==
    \E x \in 1..Len(evs) :
        /\ evs[x].by = "network-first" /\ Answered(evs[x])
        /\ evs[x].resp.status = 404
        /\ \E y \in evs[x].prior :
              /\ evs[y].request = evs[x].request /\ evs[y].ph = "done"
              /\ evs[y].resp.status = 200
        /\ cachePuts = {}
        /\ evs[x].request.url \in DOMAIN Current(caches)
        /\ Current(caches)[evs[x].request.url] = evs[x].resp

\* C27: in every import run each index entry is counted exactly once: between
\* batches and at the end of the run, succeeded + failed is the number of
\* index entries processed so far
C27_EachEntryCountedOnce ==
    /\ pc \in {"loop", "batchfetch", "batchstore"} =>
          processedItems + failedItems = Min(off, Len(itemIndex))
    /\ (pc = "idle" /\ result = "true") =>
          processedItems + failedItems = Len(itemIndex)

C27_Witness ==
    /\ pc = "idle" /\ result = "true"
    /\ remote.dirty /\ Len(itemIndex) > batchSize
    /\ \E b \in DOMAIN batchLog :
          /\ batchLog[b].kind = "resolved" /\ batchLog[b].putFailed
          /\ \E j \in DOMAIN batchLog[b].why : batchLog[b].why[j] = "meta"
    /\ processedItems > 0 /\ failedItems > 0

AppIds == { workflows.map[x].key : x \in DOMAIN workflows.map }

\* C29: for every workflows payload, the normaliser of importData and
\* ExportedApp.loadWorkflows accept the same set of workflow ids
C29_SameWorkflowIds ==
    (WorkflowsLoaded /\ workflows.loaded) => DOMAIN store.workflows = AppIds

====
